---- MODULE Spec2Model ----
(***************************************************************************)
(* Model of the task executor of whatsup_agents (backend/lqueue.py), the   *)
(* delegation scanner (backend/services/router.py) and the callers of the  *)
(* queue (backend/main.py, backend/routers/messages.py).                   *)
(*                                                                         *)
(* Texts are sequences of one-character strings.  A string field that is   *)
(* None in Python is the atom None; a text field that is None is NoText.   *)
(***************************************************************************)
EXTENDS Integers, Sequences, FiniteSets, TLC

\* ------------------------------------------------------------------ bounds
\* number of tasks (top-level submissions and delegated children) of a run
MaxTasks == 3
\* number of messages (inbound and dashboard) that arrive in a run
MaxMessages == 2
\* number of worker coroutines the model has room for
MaxWorkers == 2
\* number of failing calls to storage (commit, get, execute) and to the
\* bridge (POST /send) over the whole run
MaxFaults == 1

\* the texts given to the functions of router.py are built from at most
\* this many pieces
MaxPieces == 3

\* number of rounds of a tool-use loop in which the vendor's answer is any
\* of the modelled answers
MaxVaried == 2

\* ------------------------------------------------------------- python None
None == "None"
NoText == <<"None">>
\* parent_task_id=None (the default of enqueue)
NoParent == 0

\* ============================================================== router.py
\* str.lower() on the alphabet of the model
LowerChar(c) ==
    CASE c = "A" -> "a"
      [] c = "B" -> "b"
      [] c = "C" -> "c"
      [] c = "D" -> "d"
      [] c = "N" -> "n"
      [] c = "T" -> "t"
      [] OTHER -> c

Lower(s) == [i \in 1..Len(s) |-> LowerChar(s[i])]

\* \s of the regular expressions, and the characters str.strip() removes
IsSpace(c) == c \in {" ", "\n"}

\* str.strip()
RECURSIVE LStrip(_)
LStrip(s) == IF s # <<>> /\ IsSpace(Head(s)) THEN LStrip(Tail(s)) ELSE s

RECURSIVE RStrip(_)
RStrip(s) ==
    IF s # <<>> /\ IsSpace(s[Len(s)]) THEN RStrip(SubSeq(s, 1, Len(s) - 1)) ELSE s

Strip(s) == RStrip(LStrip(s))

\* Position of the ':' that ends the lazy id group \S+? of a tag opening at i
\* ("[@" at i, i+1), or 0: the first ':' at i+3 or later with no whitespace
\* between i+2 and it.
TagColon(s, i) ==
    IF i + 1 > Len(s) \/ s[i] # "[" \/ s[i + 1] # "@" THEN 0
    ELSE LET P == {p \in (i + 3)..Len(s) :
                      /\ s[p] = ":"
                      /\ \A j \in (i + 2)..(p - 1) : ~IsSpace(s[j])}
         IN IF P = {} THEN 0 ELSE CHOOSE p \in P : \A r \in P : p <= r

\* Position of the ']' that ends the lazy body [\s\S]*? of a tag opening at
\* i, or 0 when the pattern does not match at i.
TagEnd(s, i) ==
    LET p == TagColon(s, i)
    IN IF p = 0 THEN 0
       ELSE LET Q == {q \in (p + 1)..Len(s) : s[q] = "]"}
            IN IF Q = {} THEN 0 ELSE CHOOSE q \in Q : \A r \in Q : q <= r

\* tag_pattern.finditer(s): the leftmost non-overlapping matches from i on,
\* each as [b |-> '[' , c |-> ':' , e |-> ']'] positions
RECURSIVE FindTags(_, _)
FindTags(s, i) ==
    IF i > Len(s) THEN <<>>
    ELSE IF TagEnd(s, i) > 0
         THEN <<[b |-> i, c |-> TagColon(s, i), e |-> TagEnd(s, i)]>>
                  \o FindTags(s, TagEnd(s, i) + 1)
         ELSE FindTags(s, i + 1)

\* tag_pattern.sub('', s) from i on
RECURSIVE SubTags(_, _)
SubTags(s, i) ==
    IF i > Len(s) THEN <<>>
    ELSE IF TagEnd(s, i) > 0 THEN SubTags(s, TagEnd(s, i) + 1)
         ELSE <<s[i]>> \o SubTags(s, i + 1)

strip_teammate_tags(response) == Strip(SubTags(response, 1))

\* str.split(','): the segments of s between commas
RECURSIVE SplitComma(_)
SplitComma(s) ==
    LET C == {i \in 1..Len(s) : s[i] = ","}
    IN IF C = {} THEN <<s>>
       ELSE LET k == CHOOSE i \in C : \A r \in C : i <= r
            IN <<SubSeq(s, 1, k - 1)>> \o SplitComma(SubSeq(s, k + 1, Len(s)))

\* the separator between the shared context and the directed text, as one
\* character of the model
Sep == <<"\n\n---\nDirected to you:\n">>

\* an f-string that writes the separator also after an empty shared context
FullMsgAlwaysSep(shared_context, direct_msg) == shared_context \o Sep \o direct_msg

\* the f-string of router.py:70-73
FullMsg(shared_context, direct_msg) ==
    IF shared_context # <<>> THEN shared_context \o Sep \o direct_msg
    ELSE direct_msg

\* the inner loop without the test "agent_id in team_agent_ids"
RECURSIVE ScanIdsAnyTeam(_, _, _, _, _)
ScanIdsAnyTeam(raw_ids, full_msg, current_agent_id, team_agent_ids, acc) ==
    IF raw_ids = <<>> THEN acc
    ELSE LET agent_id == Strip(Head(raw_ids))
             take == /\ agent_id # <<>>
                     /\ agent_id \notin acc.seen
                     /\ agent_id # current_agent_id
         IN ScanIdsAnyTeam(Tail(raw_ids), full_msg, current_agent_id, team_agent_ids,
                    IF take
                    THEN [results |-> Append(acc.results,
                                        [agent_id |-> agent_id, message |-> full_msg]),
                          seen |-> acc.seen \cup {agent_id}]
                    ELSE acc)

\* the inner loop without the test "agent_id not in seen"
RECURSIVE ScanIdsNoSeen(_, _, _, _, _)
ScanIdsNoSeen(raw_ids, full_msg, current_agent_id, team_agent_ids, acc) ==
    IF raw_ids = <<>> THEN acc
    ELSE LET agent_id == Strip(Head(raw_ids))
             take == /\ agent_id # <<>>
                     /\ agent_id # current_agent_id
                     /\ agent_id \in team_agent_ids
         IN ScanIdsNoSeen(Tail(raw_ids), full_msg, current_agent_id, team_agent_ids,
                    IF take
                    THEN [results |-> Append(acc.results,
                                        [agent_id |-> agent_id, message |-> full_msg]),
                          seen |-> acc.seen \cup {agent_id}]
                    ELSE acc)

\* the inner loop over raw_ids of one tag: appends to acc = [results, seen]
RECURSIVE ScanIds(_, _, _, _, _)
ScanIds(raw_ids, full_msg, current_agent_id, team_agent_ids, acc) ==
    IF raw_ids = <<>> THEN acc
    ELSE LET agent_id == Strip(Head(raw_ids))
             take == /\ agent_id # <<>>
                     /\ agent_id \notin acc.seen
                     /\ agent_id # current_agent_id
                     /\ agent_id \in team_agent_ids
         IN ScanIds(Tail(raw_ids), full_msg, current_agent_id, team_agent_ids,
                    IF take
                    THEN [results |-> Append(acc.results,
                                        [agent_id |-> agent_id, message |-> full_msg]),
                          seen |-> acc.seen \cup {agent_id}]
                    ELSE acc)

\* the outer loop over the matches of one response
RECURSIVE ScanTags(_, _, _, _, _, _)
ScanTags(response, tags, shared_context, current_agent_id, team_agent_ids, acc) ==
    IF tags = <<>> THEN acc
    ELSE LET m == Head(tags)
             raw_ids == SplitComma(Lower(SubSeq(response, m.b + 2, m.c - 1)))
             direct_msg == Strip(SubSeq(response, m.c + 1, m.e - 1))
         IN ScanTags(response, Tail(tags), shared_context, current_agent_id,
                     team_agent_ids,
                     ScanIds(raw_ids, FullMsg(shared_context, direct_msg),
                             current_agent_id, team_agent_ids, acc))

extract_teammate_mentions(response, current_agent_id, team_agent_ids) ==
    ScanTags(response, FindTags(response, 1), Strip(SubTags(response, 1)),
             current_agent_id, team_agent_ids,
             [results |-> <<>>, seen |-> {}]).results

\* whether a text contains a delegation directive tag
HasTag(s) == \E i \in 1..Len(s) : TagEnd(s, i) > 0


\* ============================================================ the directory
\* agents of the directory (models.Agent rows) with their team_id; "z" is an
\* id no agent has
A_a == <<"a">>
A_b == <<"b">>
A_c == <<"c">>
A_d == <<"d">>
A_e == <<"e">>
A_z == <<"z">>

AgentTeam ==
    (A_a :> "t") @@ (A_b :> "t") @@ (A_c :> "t") @@ (A_d :> None) @@ (A_e :> None)

\* the provider key of each agent (Agent.provider, any string the API was
\* given): one recognized key, one empty key, one key no vendor has
AgentProvider ==
    (A_a :> "anthropic") @@ (A_b :> "") @@ (A_c :> "mistral") @@ (A_d :> "google")
    @@ (A_e :> "openai")

\* the agents that have a database resource, hence tool definitions
\* (_load_resources, _collect_db_tools)
AgentTools == {A_e}

\* db.get(Agent, agent_id) is not None
AgentExists(agent_id) == agent_id \in DOMAIN AgentTeam

\* a team lookup that returns every agent, whatever its team
get_team_agent_ids_all(agent_id) == DOMAIN AgentTeam

\* _get_team_agent_ids, as the set of the ids it returns
get_team_agent_ids(agent_id) ==
    IF ~AgentExists(agent_id) \/ AgentTeam[agent_id] = None THEN {}
    ELSE {a \in DOMAIN AgentTeam : AgentTeam[a] = AgentTeam[agent_id]}

\* =============================================================== the inputs
\* replies the provider may produce (invoke_agent's return value)
R_plain == <<"x">>
R_one == <<"x", "[", "@", "b", ",", "a", ":", " ", "y", "]">>
R_two == <<"[", "@", "c", ",", "a", ":", "y", "]", " ", "[", "@", "C", ",", "b", ":", "x", "]">>
R_inel == <<"x", "[", "@", "z", ":", "y", "]">>

Replies == {R_plain, R_one, R_two, R_inel}

\* invoker.py:150
MAX_ROUNDS == 10

\* invoker.py:180, the reply of an exhausted tool-use loop, as one character
MaxRoundsText == <<"[Max tool rounds reached without a final answer]">>

\* invoker.py:146, f"[Configuration error: {e}]", as one character
ConfigErrorText == <<"[Configuration error: Unknown provider]">>

\* every text invoke_agent may return
ReplyTexts == Replies \cup {MaxRoundsText, ConfigErrorText}

\* the text of an inbound message
M_in == <<"m">>

\* the agent ids a task may name
AgentIds == DOMAIN AgentTeam \cup {A_z}

TaskIds == 1..MaxTasks
Workers == 1..MaxWorkers

\* ================================================================ the state
VARIABLES
    lifespan,   \* main.lifespan: "startup" | "serving" | "shutdown"
    running,    \* TaskQueue._running
    created,    \* number of _worker coroutines created by start()
    queue,      \* TaskQueue._queue: the items, oldest first
    issued,     \* number of task ids generated by enqueue
    pc,         \* position of each _worker coroutine
    loc,        \* locals of the _process call each worker is in
    tasks,      \* the committed rows of table tasks, by id
    puts,       \* history: every item put on the queue, in put order
    startOrder, \* history: task ids in the order _process was entered
    returned,   \* history: task ids whose _process call has ended
    replyOf,    \* history: the reply of each task that was committed done
    sent,       \* history: the POSTs _send_reply made to the bridge
    faults,     \* history: number of storage and bridge calls that have failed
    convs,      \* the committed rows of table conversations with their messages
    invocations,\* history: the calls of invoke_agent, in call order
    notes,      \* history: the task_update events given to the hub
    routerCall, \* the call of a function under test (router.py, db_tools.py),
                \* with its result
    frame,      \* the invoke_agent call under test: its locals and what the
                \* provider was sent and has answered
    groups,     \* the rows of the table whatsapp_groups
    inbound     \* the incoming_message request in flight, between its group
                \* guard and its answer

vars == <<lifespan, running, created, queue, issued, pc, loc, tasks, puts,
          startOrder, returned, replyOf, sent, faults, convs, invocations, notes,
          routerCall, frame, groups, inbound>>

NoItem == [task_id |-> 0, agent_id |-> <<>>, sender_id |-> None,
           sender_name |-> None, message |-> NoText, channel |-> None,
           parent_task_id |-> NoParent, group_id |-> None]

\* a models.Task object: the columns _process assigns after construction
NoTask == [status |-> None, result |-> NoText, error |-> None]

\* a models.Conversation row, with the Message rows that point to it
NoConv == [id |-> 0, agent_id |-> <<>>, sender_id |-> None, sender_name |-> None,
           channel |-> None, messages |-> <<>>]

\* what the session of a _process call holds uncommitted: a Conversation that
\* was added or changed (at index idx of the table, 0 for a new row)
NoPending == [pending |-> FALSE, idx |-> 0, row |-> NoConv]

NoLoc == [item |-> NoItem, task |-> NoTask, reply |-> NoText, mentions |-> <<>>,
          clean_reply |-> NoText, i |-> 1, e |-> None, conv |-> NoPending]

\* no invoke_agent call is under test
NoFrame == [at |-> "idle"]

\* the group ids of the model (WhatsApp ids that end with "@g.us")
GroupIds == {"g1", "g2"}

\* the table whatsapp_groups as the service finds it: one group, registered
\* and enabled
StoredGroups == {[group_id |-> "g1", enabled |-> TRUE]}

\* no incoming_message request is in flight
NoInbound == [at |-> "idle"]

\* no function is under test
NoCall == [fn |-> None]

\* positions inside _process
ProcPcs == {"add", "agent", "invoke", "scan", "done", "delegate", "reply", "except"}

Init ==
    /\ lifespan = "startup"
    /\ running = FALSE
    /\ created = 0
    /\ queue = <<>>
    /\ issued = 0
    /\ pc = [w \in Workers |-> "off"]
    /\ loc = [w \in Workers |-> NoLoc]
    /\ tasks = [t \in TaskIds |-> NoTask]
    /\ puts = <<>>
    /\ startOrder = <<>>
    /\ returned = {}
    /\ replyOf = [t \in TaskIds |-> NoText]
    /\ sent = <<>>
    /\ faults = 0
    /\ convs = <<>>
    /\ invocations = <<>>
    /\ notes = <<>>
    /\ routerCall = NoCall
    /\ frame = NoFrame
    /\ groups = StoredGroups
    /\ inbound = NoInbound

\* ================================================================ lqueue.py
\* the item dict enqueue builds; task ids are uuid4 values, modelled as the
\* next unused number
NewItem(agent_id, sender_id, sender_name, message, channel, parent_task_id, group_id) ==
    [task_id |-> issued + 1, agent_id |-> agent_id, sender_id |-> sender_id,
     sender_name |-> sender_name, message |-> message, channel |-> channel,
     parent_task_id |-> parent_task_id, group_id |-> group_id]

\* asyncio.Queue.put on an unbounded queue
QueuePut(q, item) == Append(q, item)

\* lqueue.py:15, asyncio.Queue() without maxsize: the default, no limit
QueueMaxSize == 0

\* full() of a queue that holds at most one item
QueueFullAtOne(q) == Len(q) >= 1

\* asyncio.Queue.full(): put waits while it holds
QueueFull(q) == QueueMaxSize > 0 /\ Len(q) >= QueueMaxSize

\* TaskQueue.enqueue: the state change of the call (queue.put never waits;
\* hub.log changes nothing the model keeps)
Enqueued(item) ==
    /\ ~QueueFull(queue)
    /\ queue' = QueuePut(queue, item)
    /\ issued' = issued + 1
    /\ puts' = Append(puts, item)

\* line 102: clean_reply = strip_teammate_tags(reply) if mentions else reply
clean_reply_of(reply, mentions) ==
    IF mentions # <<>> THEN strip_teammate_tags(reply) ELSE reply

\* lines 100-102 for one reply and acting agent: the mentions and the clean
\* reply
ScanReply(reply, agent_id) ==
    LET mentions == extract_teammate_mentions(reply, agent_id,
                                              get_team_agent_ids(agent_id))
    IN [mentions |-> mentions, clean |-> clean_reply_of(reply, mentions)]

\* ScanReply for every reply and agent id of the model, evaluated once
Scanned == [r \in ReplyTexts, a \in AgentIds |-> ScanReply(r, a)]

\* number of children worker w has still to enqueue for the reply it holds
Outstanding(w) ==
    IF pc[w] = "scan"
    THEN Len(Scanned[loc[w].reply, loc[w].item.agent_id].mentions)
    ELSE IF pc[w] \in {"done", "delegate"}
         THEN Len(loc[w].mentions) - loc[w].i + 1
         ELSE 0

RECURSIVE SumOutstanding(_)
SumOutstanding(W) ==
    IF W = {} THEN 0
    ELSE LET w == CHOOSE x \in W : TRUE
         IN Outstanding(w) + SumOutstanding(W \ {w})

\* number of messages that have arrived: the items put without a parent
Arrived == Cardinality({j \in 1..Len(puts) : puts[j].parent_task_id = NoParent})

\* a group guard that does not look at the column enabled
group_guard_any(group_id, rows) ==
    group_id = None \/ \E row \in rows : row.group_id = group_id

\* routers/messages.py:36-46, the group guard: a payload without group id
\* passes; one with a group id passes when a row with that id is enabled
group_guard(group_id, rows) ==
    group_id = None \/ \E row \in rows : row.group_id = group_id /\ row.enabled

\* routers/messages.py incoming_message: the bridge delivers a message that
\* passed the group guard and resolved to an existing agent
IncomingMessage ==
    /\ lifespan = "serving"
    /\ Arrived < MaxMessages
    /\ issued + SumOutstanding(Workers) < MaxTasks
    /\ \E p \in {[s |-> "s1", n |-> "n1", g |-> None], [s |-> "s2", n |-> None, g |-> "g1"]} :
          /\ group_guard(p.g, groups)
          /\ Enqueued(NewItem(A_a, p.s, p.n, M_in, "whatsapp", NoParent, p.g))
    /\ UNCHANGED <<convs, invocations, notes, routerCall, frame, groups, inbound>>
    /\ UNCHANGED <<faults, lifespan, running, created, pc, loc, tasks, startOrder,
                   returned, replyOf, sent>>

\* payloads of the bridge that differ in sender and group: two senders
\* writing directly and the same two writing in one group
ChatPayloads ==
    {[s |-> "s1", n |-> "n1", g |-> None, c |-> "whatsapp"],
     [s |-> "s2", n |-> None, g |-> None, c |-> "whatsapp"],
     [s |-> "s1", n |-> "n1", g |-> "g1", c |-> "whatsapp"],
     [s |-> "s2", n |-> None, g |-> "g1", c |-> "whatsapp"]}

\* routers/messages.py incoming_message, for the payloads of ChatPayloads
\* and messages that resolve to the agent without a team
IncomingChat ==
    /\ lifespan = "serving"
    /\ Arrived < MaxMessages
    /\ issued + SumOutstanding(Workers) < MaxTasks
    /\ \E p \in ChatPayloads :
          /\ group_guard(p.g, groups)
          /\ Enqueued(NewItem(A_d, p.s, p.n, M_in, p.c, NoParent, p.g))
    /\ UNCHANGED <<convs, invocations, notes, routerCall, frame, groups, inbound>>
    /\ UNCHANGED <<faults, lifespan, running, created, pc, loc, tasks, startOrder,
                   returned, replyOf, sent>>

\* routers/messages.py dashboard_chat: the agent id is whatever the payload
\* names
DashboardChat ==
    /\ lifespan = "serving"
    /\ Arrived < MaxMessages
    /\ issued + SumOutstanding(Workers) < MaxTasks
    /\ \E agent_id \in {A_z} :
          Enqueued(NewItem(agent_id, "dashboard", "Dashboard User", M_in,
                           "dashboard", NoParent, None))
    /\ UNCHANGED <<convs, invocations, notes, routerCall, frame, groups, inbound>>
    /\ UNCHANGED <<faults, lifespan, running, created, pc, loc, tasks, startOrder,
                   returned, replyOf, sent>>

\* routers/messages.py dashboard_chat for the agent that has tools
DashboardToolChat ==
    /\ lifespan = "serving"
    /\ Arrived < MaxMessages
    /\ issued + SumOutstanding(Workers) < MaxTasks
    /\ \E agent_id \in AgentTools :
          Enqueued(NewItem(agent_id, "dashboard", "Dashboard User", M_in,
                           "dashboard", NoParent, None))
    /\ UNCHANGED <<convs, invocations, notes, routerCall, frame, groups, inbound>>
    /\ UNCHANGED <<faults, lifespan, running, created, pc, loc, tasks, startOrder,
                   returned, replyOf, sent>>

\* the worker coroutines one call of start() creates: a pool of two
NewWorkersPool(n) == {n + 1, n + 2} \cap Workers

\* the worker coroutines one call of start() creates
NewWorkers(n) == {n + 1} \cap Workers

\* main.lifespan startup: init_db(), task_queue.start()
Start ==
    /\ lifespan = "startup"
    /\ lifespan' = "serving"
    /\ running' = TRUE
    /\ created' = created + Cardinality(NewWorkers(created))
    /\ pc' = [w \in Workers |-> IF w \in NewWorkers(created) THEN "loop" ELSE pc[w]]
    /\ UNCHANGED <<convs, invocations, notes, routerCall, frame, groups, inbound>>
    /\ UNCHANGED <<faults, queue, issued, loc, tasks, puts, startOrder, returned,
                   replyOf, sent>>

\* main.lifespan shutdown: task_queue._running = False
Shutdown ==
    /\ lifespan = "serving"
    /\ lifespan' = "shutdown"
    /\ running' = FALSE
    /\ UNCHANGED <<convs, invocations, notes, routerCall, frame, groups, inbound>>
    /\ UNCHANGED <<faults, created, queue, issued, pc, loc, tasks, puts, startOrder,
                   returned, replyOf, sent>>

\* ------------------------------------------------------- TaskQueue._worker
Goto(w, label) == pc' = [pc EXCEPT ![w] = label]

\* the _process call of worker w ends (returns or raises): its locals die
EndProcess(w) ==
    /\ returned' = returned \cup {loc[w].item.task_id}
    /\ loc' = [loc EXCEPT ![w] = NoLoc]

\* where an exception that leaves _process takes a worker without the
\* except clause of _worker: the coroutine ends
worker_no_handler == "exited"

\* where an exception that leaves _process takes the worker: the clause
\* "except Exception" of _worker, which logs it
worker_handler == "werr"

\* an exception leaves _process
RaiseOut(w) == Goto(w, worker_handler) /\ EndProcess(w)

\* _process returns
Return(w) == Goto(w, "loop") /\ EndProcess(w)

\* a loop "while True:" that never reads the flag
keeps_running_forever(flag) == TRUE

\* lqueue.py:48, the test of "while self._running:"
keeps_running(flag) == flag

\* "while self._running:" holds, the worker goes on to wait for an item
WorkerLoop(w) ==
    /\ pc[w] = "loop"
    /\ keeps_running(running)
    /\ Goto(w, "wait")
    /\ UNCHANGED <<convs, invocations, notes, routerCall, frame, groups, inbound>>
    /\ UNCHANGED <<faults, lifespan, running, created, queue, issued, loc, tasks, puts,
                   startOrder, returned, replyOf, sent>>

\* "while self._running:" does not hold, the coroutine ends
WorkerExit(w) ==
    /\ pc[w] = "loop"
    /\ ~keeps_running(running)
    /\ Goto(w, "exited")
    /\ UNCHANGED <<convs, invocations, notes, routerCall, frame, groups, inbound>>
    /\ UNCHANGED <<faults, lifespan, running, created, queue, issued, loc, tasks, puts,
                   startOrder, returned, replyOf, sent>>

\* asyncio.Queue.get of a stack
QueueGetLast(q) == [item |-> q[Len(q)], rest |-> SubSeq(q, 1, Len(q) - 1)]

\* asyncio.Queue.get: the oldest item
QueueGet(q) == [item |-> Head(q), rest |-> Tail(q)]

\* wait_for(queue.get()) yields an item and _process(item) is entered
WorkerGet(w) ==
    /\ pc[w] = "wait"
    /\ queue # <<>>
    /\ queue' = QueueGet(queue).rest
    /\ loc' = [loc EXCEPT ![w] = [NoLoc EXCEPT !.item = QueueGet(queue).item]]
    /\ startOrder' = Append(startOrder, QueueGet(queue).item.task_id)
    /\ Goto(w, "add")
    /\ UNCHANGED <<convs, invocations, notes, routerCall, frame, groups, inbound>>
    /\ UNCHANGED <<faults, lifespan, running, created, issued, tasks, puts, returned,
                   replyOf, sent>>

\* wait_for times out on an empty queue: continue
WorkerTimeout(w) ==
    /\ pc[w] = "wait"
    /\ queue = <<>>
    /\ Goto(w, "loop")
    /\ UNCHANGED <<convs, invocations, notes, routerCall, frame, groups, inbound>>
    /\ UNCHANGED <<faults, lifespan, running, created, queue, issued, loc, tasks, puts,
                   startOrder, returned, replyOf, sent>>

\* "except Exception as e: hub.log(...)" of _worker, then the next iteration
WorkerError(w) ==
    /\ pc[w] = "werr"
    /\ Goto(w, "loop")
    /\ UNCHANGED <<convs, invocations, notes, routerCall, frame, groups, inbound>>
    /\ UNCHANGED <<faults, lifespan, running, created, queue, issued, loc, tasks, puts,
                   startOrder, returned, replyOf, sent>>

\* ------------------------------------------------------ TaskQueue._process
\* a storage call (db.commit, db.get, db.execute) raises, or the bridge
\* cannot be reached
Fault == faults < MaxFaults /\ faults' = faults + 1

NoFault == faults' = faults

\* db.commit() succeeds: the row of the task takes the values of the object
Commit(w, task) == tasks' = [tasks EXCEPT ![loc[w].item.task_id] = task]

\* db.commit() raises: the session (database.AsyncSessionLocal, an SQLAlchemy
\* AsyncSession) is rolled back, which discards the attribute values assigned
\* since the last commit; the object is left with the values of its row
RolledBack(w) == tasks[loc[w].item.task_id]

\* "task.error = ..." without "task.status = 'failed'"
mark_failed_no_status(task, error) == [task EXCEPT !.error = error]

\* "task.error = 'processing failed'" in place of the raised error's text
mark_failed_generic(task, error) ==
    [task EXCEPT !.status = "failed", !.error = "ProcessingFailed"]

\* lines 78-79 and 129-130: task.status = "failed"; task.error = ...
mark_failed(task, error) == [task EXCEPT !.status = "failed", !.error = error]

\* a hub that tells observers nothing
TaskUpdateDropped(w, task) == notes' = notes

\* hub.task_update(_task_dict(task)): observers are told the task's fields
TaskUpdate(w, task) ==
    notes' = Append(notes, [task_id |-> loc[w].item.task_id, status |-> task.status,
                            result |-> task.result, error |-> task.error])

\* lines 61-74: Task(status="processing") is added and committed, observers
\* are told; a failing commit leaves _process
ProcessAdd(w) ==
    /\ pc[w] = "add"
    /\ \/ /\ NoFault
          /\ Commit(w, [NoTask EXCEPT !.status = "processing"])
          /\ TaskUpdate(w, [NoTask EXCEPT !.status = "processing"])
          /\ loc' = [loc EXCEPT ![w].task = [NoTask EXCEPT !.status = "processing"]]
          /\ Goto(w, "agent")
          /\ UNCHANGED returned
       \/ /\ Fault
          /\ RaiseOut(w)
          /\ UNCHANGED <<tasks, notes>>
    /\ UNCHANGED <<convs, invocations, routerCall, frame, groups, inbound>>
    /\ UNCHANGED <<lifespan, running, created, queue, issued, puts, startOrder,
                   replyOf, sent>>

\* lines 76-84: the agent is looked up; a missing agent fails the task and
\* _process returns; db.get or the commit may raise, outside the try block
ProcessAgent(w) ==
    /\ pc[w] = "agent"
    /\ \/ /\ NoFault
          /\ AgentExists(loc[w].item.agent_id)
          /\ Goto(w, "invoke")
          /\ UNCHANGED <<loc, tasks, returned, notes>>
       \/ /\ NoFault
          /\ ~AgentExists(loc[w].item.agent_id)
          /\ Commit(w, mark_failed(loc[w].task, "AgentNotFound"))
          /\ TaskUpdate(w, mark_failed(loc[w].task, "AgentNotFound"))
          /\ Return(w)
       \/ /\ Fault
          /\ RaiseOut(w)
          /\ UNCHANGED <<tasks, notes>>
    /\ UNCHANGED <<convs, invocations, routerCall, frame, groups, inbound>>
    /\ UNCHANGED <<lifespan, running, created, queue, issued, puts, startOrder,
                   replyOf, sent>>

\* the replies whose delegations still fit the bound on the tasks of a run
FittingReplies(agent_id) ==
    {r \in Replies :
        issued + SumOutstanding(Workers)
          + Len(Scanned[r, agent_id].mentions)
        <= MaxTasks}

\* ============================================================== invoker.py
\* a key that ignores the group: conversation_key = item["sender_id"]
conversation_key_sender(item) == item.sender_id

\* lqueue.py:89: conversation_key = item.get("group_id") or item["sender_id"]
conversation_key(item) ==
    IF item.group_id # None THEN item.group_id ELSE item.sender_id

\* the rows the select of get_or_create_conversation finds
MatchingConvs(agent_id, sender_id, channel) ==
    {i \in 1..Len(convs) : /\ convs[i].agent_id = agent_id
                           /\ convs[i].sender_id = sender_id
                           /\ convs[i].channel = channel}

\* str(uuid.uuid4()) of a new Conversation: the next unused number
NewConvId == 1 + Cardinality({j \in 1..Len(invocations) : invocations[j].created})

\* a lookup that never finds a row: a Conversation is created at every call
get_or_create_conversation_always(agent_id, sender_id, sender_name, channel) ==
    [raised |-> FALSE, created |-> TRUE, pending |-> TRUE, idx |-> 0,
     row |-> [id |-> NewConvId, agent_id |-> agent_id,
              sender_id |-> sender_id, sender_name |-> sender_name,
              channel |-> channel, messages |-> <<>>]]

\* get_or_create_conversation: the row it returns and what it leaves
\* uncommitted in the session; scalar_one_or_none raises on several rows
get_or_create_conversation(agent_id, sender_id, sender_name, channel) ==
    LET M == MatchingConvs(agent_id, sender_id, channel)
    IN IF M = {}
       THEN [raised |-> FALSE, created |-> TRUE, pending |-> TRUE, idx |-> 0,
             row |-> [id |-> NewConvId, agent_id |-> agent_id,
                      sender_id |-> sender_id, sender_name |-> sender_name,
                      channel |-> channel, messages |-> <<>>]]
       ELSE IF Cardinality(M) > 1
       THEN [raised |-> TRUE, created |-> FALSE, pending |-> FALSE, idx |-> 0,
             row |-> NoConv]
       ELSE LET i == CHOOSE x \in M : TRUE
            IN IF sender_name # None /\ convs[i].sender_name = None
               THEN [raised |-> FALSE, created |-> FALSE, pending |-> TRUE, idx |-> i,
                     row |-> [convs[i] EXCEPT !.sender_name = sender_name]]
               ELSE [raised |-> FALSE, created |-> FALSE, pending |-> FALSE, idx |-> i,
                     row |-> convs[i]]

\* db.commit() succeeds: the Conversation the session holds is written
CommittedConvs(c) ==
    IF ~c.pending THEN convs
    ELSE IF c.idx = 0 THEN Append(convs, c.row)
    ELSE [convs EXCEPT ![c.idx] = c.row]

\* an AgentResource row (resource_model.py); the columns a kind does not
\* use are None
Resource(kind, name, repo_path, db_url, db_tables) ==
    [kind |-> kind, name |-> name, repo_path |-> repo_path, db_url |-> db_url,
     db_tables |-> db_tables]

\* what load_repository_context does for one resource: it returns a text,
\* or raises an error (a path that does not exist)
Loaded(text) == [raised |-> FALSE, text |-> text]
LoadError(e) == [raised |-> TRUE, text |-> e]

\* invoker.py:65-73: the blocks of the repository resources, in order; the
\* block of a resource whose loading raises is the inline error marker
RECURSIVE RenderBlocks(_, _)
RenderBlocks(resources, loads) ==
    IF resources = <<>> THEN <<>>
    ELSE LET res == Head(resources)
             ctx == Head(loads)
         IN (IF res.kind # "repository" \/ res.repo_path \in {None, ""} THEN <<>>
             ELSE IF ctx.raised
             THEN <<(<<"## Resource: ", res.name, "\n\n",
                      "[Error loading repository: ", ctx.text, "]">>)>>
             ELSE <<(<<"## Resource: ", res.name, "\n\n">> \o ctx.text)>>)
            \o RenderBlocks(Tail(resources), Tail(loads))

\* the loop of lines 66-73 without its try: the error of the first
\* repository that fails to load leaves _build_repo_injection
repo_blocks_no_try(resources, loads) ==
    IF \E k \in 1..Len(resources) :
          /\ resources[k].kind = "repository"
          /\ resources[k].repo_path \notin {None, ""}
          /\ loads[k].raised
    THEN [raised |-> TRUE, blocks |-> <<>>]
    ELSE [raised |-> FALSE, blocks |-> RenderBlocks(resources, loads)]

\* the loop of lines 66-73: "except Exception" catches what loading raises
repo_blocks(resources, loads) ==
    [raised |-> FALSE, blocks |-> RenderBlocks(resources, loads)]

\* "\n\n".join(blocks)
RECURSIVE JoinBlocks(_)
JoinBlocks(blocks) ==
    IF blocks = <<>> THEN <<>>
    ELSE IF Len(blocks) = 1 THEN Head(blocks)
    ELSE Head(blocks) \o <<"\n\n">> \o JoinBlocks(Tail(blocks))

\* _build_repo_injection (line 74): "\n\n" + the joined blocks, or ""
build_repo_injection(resources, loads) ==
    LET r == repo_blocks(resources, loads)
    IN [raised |-> r.raised,
        text |-> IF r.blocks = <<>> THEN <<>> ELSE <<"\n\n">> \o JoinBlocks(r.blocks)]

\* invoker.py:123-129: the message followed by the rule, the heading and the
\* repository block, or the message alone when there is no block
enriched_message(message, repo_block) ==
    IF repo_block = <<>> THEN message
    ELSE message \o <<"\n\n", "RULE", "\n",
                      "You have access to the following repository files:", "\n">>
                 \o repo_block

\* the resources attached to each agent (_load_resources): agent d has
\* three repositories, agent e a database
AgentResources ==
    (A_a :> <<>>) @@ (A_b :> <<>>) @@ (A_c :> <<>>)
    @@ (A_d :> <<Resource("repository", "r1", "/r1", None, <<>>),
                 Resource("repository", "r2", "/r2", None, <<>>),
                 Resource("repository", "r3", "/r3", None, <<>>)>>)
    @@ (A_e :> <<Resource("database", "db", None, "sqlite://", <<>>)>>)

\* what load_repository_context does for them: the path of the second
\* repository of agent d does not exist
AgentLoads ==
    (A_a :> <<>>) @@ (A_b :> <<>>) @@ (A_c :> <<>>)
    @@ (A_d :> <<Loaded(<<"f1">>), LoadError("FileNotFoundError"), Loaded(<<"f3">>)>>)
    @@ (A_e :> <<Loaded(<<>>)>>)

\* lines 119-129 for the task's agent: whether the injection raised, and the
\* content of the last user entry given to the provider
Injection(item) ==
    build_repo_injection(AgentResources[item.agent_id], AgentLoads[item.agent_id])

PromptOf(item) == enriched_message(item.message, Injection(item).text)

\* a persist step that stores the message as the provider was given it
persisted_user_content_enriched(item) == PromptOf(item)

\* invoker.py:187: content=message, the message as invoke_agent received it
persisted_user_content(item) == item.message

\* invoker.py:141: provider_name = agent.provider or "anthropic"
provider_name_of(provider) ==
    IF provider \in {"", None} THEN "anthropic" ELSE provider

\* a factory that answers an unknown key with the default vendor
get_provider_default(provider_name) ==
    IF provider_name \in {"anthropic", "openai", "google"}
    THEN provider_name ELSE "anthropic"

\* llm.get_provider: the vendor backend of a key, or ValueError
get_provider(provider_name) ==
    IF provider_name \in {"anthropic", "openai", "google"} THEN provider_name
    ELSE "ValueError"

\* what the vendor does in one invocation: it asks for tools in the first
\* `tools` rounds and then answers `text`, or its call of round `raises`
\* fails (0: none fails); it asks for tools only when it was offered some
Scripts(agent_id) ==
    {[tools |-> 0, text |-> r, raises |-> 0] : r \in FittingReplies(agent_id)}
    \cup {[tools |-> 0, text |-> R_plain, raises |-> 1]}
    \cup IF agent_id \in AgentTools
         THEN {[tools |-> MAX_ROUNDS - 1, text |-> R_plain, raises |-> 0],
               [tools |-> MAX_ROUNDS, text |-> R_plain, raises |-> 0]}
         ELSE {}

\* a loop that gives up with an error when the rounds are used up
RECURSIVE tool_loop_raising(_, _)
tool_loop_raising(round, script) ==
    IF round > MAX_ROUNDS
    THEN [final_text |-> NoText, calls |-> MAX_ROUNDS, raised |-> TRUE]
    ELSE IF script.raises = round
    THEN [final_text |-> NoText, calls |-> round, raised |-> TRUE]
    ELSE IF round > script.tools
    THEN [final_text |-> script.text, calls |-> round, raised |-> FALSE]
    ELSE tool_loop_raising(round + 1, script)

\* the tool-use loop from round `round` on (invoker.py:152-180): the final
\* text, the number of calls of provider.complete and whether one raised
RECURSIVE tool_loop(_, _)
tool_loop(round, script) ==
    IF round > MAX_ROUNDS
    THEN [final_text |-> MaxRoundsText, calls |-> MAX_ROUNDS, raised |-> FALSE]
    ELSE IF script.raises = round
    THEN [final_text |-> NoText, calls |-> round, raised |-> TRUE]
    ELSE IF round > script.tools
    THEN [final_text |-> script.text, calls |-> round, raised |-> FALSE]
    ELSE tool_loop(round + 1, script)

\* an invocation that stores the user message before it calls the provider
before_call_user_stored(row, message) ==
    [row EXCEPT !.messages = Append(@, [role |-> "user", content |-> message])]

\* invoker.py:135-146: before the loop the message is only appended to the
\* list given to the provider; the Conversation gets no Message
before_call(row, message) == row

\* the Conversation the session holds when the provider raises
HeldAtRaise(held, row) ==
    IF row = held.row THEN held ELSE [held EXCEPT !.row = row, !.pending = TRUE]

\* invoker.py:183-194: the two Message rows of a finished invocation
Persisted(row, message, final_text) ==
    [row EXCEPT !.messages = @ \o <<[role |-> "user", content |-> message],
                                    [role |-> "assistant", content |-> final_text]>>]

\* the record of one call of invoke_agent: the task it served, the
\* Conversation it used, the vendor it selected, its calls of
\* provider.complete, whether every round asked for tools, how it ended, and
\* the content of the user entry the provider was given
Invocation(item, c, vendor, calls, all_tools, outcome) ==
    [task_id |-> item.task_id, conv_id |-> c.row.id, created |-> c.created,
     vendor |-> vendor, calls |-> calls, all_tools |-> all_tools,
     outcome |-> outcome,
     prompt |-> IF calls > 0 THEN PromptOf(item) ELSE NoText]

\* lines 86-98: invoke_agent (invoker.py:96-197) returns a reply or raises
ProcessInvoke(w) ==
    /\ pc[w] = "invoke"
    /\ LET item == loc[w].item
           c == get_or_create_conversation(item.agent_id, conversation_key(item),
                                           item.sender_name, item.channel)
           held == [pending |-> c.pending, idx |-> c.idx, row |-> c.row]
           provider == get_provider(provider_name_of(AgentProvider[item.agent_id]))
       IN \/ /\ c.raised
             /\ NoFault
             /\ invocations' = Append(invocations,
                    Invocation(item, c, None, 0, FALSE, "MultipleResultsFound"))
             /\ loc' = [loc EXCEPT ![w].e = "MultipleResultsFound"]
             /\ Goto(w, "except")
             /\ UNCHANGED convs
          \/ /\ ~c.raised
             /\ Injection(item).raised
             /\ NoFault
             /\ invocations' = Append(invocations,
                    Invocation(item, c, None, 0, FALSE, "InjectionError"))
             /\ loc' = [loc EXCEPT ![w].e = "InjectionError", ![w].conv = held]
             /\ Goto(w, "except")
             /\ UNCHANGED convs
          \/ /\ ~c.raised
             /\ ~Injection(item).raised
             /\ provider = "ValueError"
             /\ NoFault
             /\ invocations' = Append(invocations,
                    Invocation(item, c, None, 0, FALSE, "configuration"))
             /\ loc' = [loc EXCEPT ![w].reply = ConfigErrorText, ![w].conv = held]
             /\ Goto(w, "scan")
             /\ UNCHANGED convs
          \/ /\ ~c.raised
             /\ ~Injection(item).raised
             /\ provider # "ValueError"
             /\ \E script \in Scripts(item.agent_id) :
                   LET r == tool_loop(1, script)
                       all_tools == script.tools >= r.calls
                   IN \/ /\ r.raised
                         /\ NoFault
                         /\ invocations' = Append(invocations,
                                Invocation(item, c, provider, r.calls, all_tools,
                                           "ProviderError"))
                         /\ loc' = [loc EXCEPT ![w].e = "ProviderError",
                                               ![w].conv =
                                                   HeldAtRaise(held,
                                                       before_call(c.row, item.message))]
                         /\ Goto(w, "except")
                         /\ UNCHANGED convs
                      \/ /\ ~r.raised
                         /\ NoFault
                         /\ invocations' = Append(invocations,
                                Invocation(item, c, provider, r.calls, all_tools,
                                           "returned"))
                         /\ convs' = CommittedConvs(
                                [held EXCEPT !.pending = TRUE,
                                             !.row = Persisted(c.row,
                                                        persisted_user_content(item),
                                                        r.final_text)])
                         /\ loc' = [loc EXCEPT ![w].reply = r.final_text]
                         /\ Goto(w, "scan")
                      \/ /\ ~r.raised
                         /\ Fault
                         /\ invocations' = Append(invocations,
                                Invocation(item, c, provider, r.calls, all_tools,
                                           "PersistError"))
                         /\ loc' = [loc EXCEPT ![w].task = RolledBack(w),
                                               ![w].e = "PersistError"]
                         /\ Goto(w, "except")
                         /\ UNCHANGED convs
    /\ UNCHANGED <<notes, routerCall, frame, groups, inbound>>
    /\ UNCHANGED <<lifespan, running, created, queue, issued, tasks, puts,
                   startOrder, returned, replyOf, sent>>

\* a delegation that stops at the first level: the mentions of a child
\* task's reply are dropped
delegated_mentions_top_only(item, mentions) ==
    IF item.parent_task_id # NoParent THEN <<>> ELSE mentions

\* lines 101 and 110: the mentions the loop "for mention in mentions" runs
\* over are the extracted ones, for a child task as for a top-level task
delegated_mentions(item, mentions) == mentions

\* lines 100-102: the team is read (the query may raise), the reply scanned
ProcessScan(w) ==
    /\ pc[w] = "scan"
    /\ \/ LET scan == Scanned[loc[w].reply, loc[w].item.agent_id]
          IN /\ NoFault
             /\ loc' = [loc EXCEPT ![w].mentions =
                                       delegated_mentions(loc[w].item, scan.mentions),
                                   ![w].clean_reply = scan.clean]
             /\ Goto(w, "done")
       \/ /\ Fault
          /\ loc' = [loc EXCEPT ![w].e = "ExecuteError"]
          /\ Goto(w, "except")
    /\ UNCHANGED <<convs, invocations, notes, routerCall, frame, groups, inbound>>
    /\ UNCHANGED <<lifespan, running, created, queue, issued, tasks, puts,
                   startOrder, returned, replyOf, sent>>

\* lines 104-108: status and result are assigned and committed, observers are
\* told; a failing commit is caught by the except clause of _process (hub
\* calls do not raise: EventHub.broadcast catches the errors of its clients)
ProcessDone(w) ==
    /\ pc[w] = "done"
    /\ LET task == [loc[w].task EXCEPT !.status = "done",
                                       !.result = loc[w].clean_reply]
       IN \/ /\ NoFault
             /\ Commit(w, task)
             /\ convs' = CommittedConvs(loc[w].conv)
             /\ TaskUpdate(w, task)
             /\ replyOf' = [replyOf EXCEPT ![loc[w].item.task_id] = loc[w].reply]
             /\ loc' = [loc EXCEPT ![w].task = task, ![w].conv = NoPending]
             /\ Goto(w, "delegate")
          \/ /\ Fault
             /\ loc' = [loc EXCEPT ![w].task = RolledBack(w), ![w].e = "CommitError",
                                   ![w].conv = NoPending]
             /\ Goto(w, "except")
             /\ UNCHANGED <<tasks, replyOf, convs, notes>>
    /\ UNCHANGED <<invocations, routerCall, frame, groups, inbound>>
    /\ UNCHANGED <<lifespan, running, created, queue, issued, puts, startOrder,
                   returned, sent>>

\* the arguments of the enqueue call, with the parent's own parent as
\* parent_task_id
ChildItemGrandparent(item, mention) ==
    NewItem(mention.agent_id, item.sender_id, item.sender_name, mention.message,
            item.channel, item.parent_task_id, item.group_id)

\* lines 115-123: the arguments of the enqueue call for one mention
ChildItem(item, mention) ==
    NewItem(mention.agent_id, item.sender_id, item.sender_name, mention.message,
            item.channel, item.task_id, item.group_id)

\* lines 110-123: one iteration of "for mention in mentions", or its end
ProcessDelegate(w) ==
    /\ pc[w] = "delegate"
    /\ \/ /\ loc[w].i <= Len(loc[w].mentions)
          /\ Enqueued(ChildItem(loc[w].item, loc[w].mentions[loc[w].i]))
          /\ loc' = [loc EXCEPT ![w].i = @ + 1]
          /\ UNCHANGED pc
       \/ /\ loc[w].i > Len(loc[w].mentions)
          /\ Goto(w, "reply")
          /\ UNCHANGED <<queue, issued, puts, loc>>
    /\ UNCHANGED <<convs, invocations, notes, routerCall, frame, groups, inbound>>
    /\ UNCHANGED <<faults, lifespan, running, created, tasks, startOrder, returned,
                   replyOf, sent>>

\* line 125: "not item.get('parent_task_id')", read as always true
is_top_level_always(item) == TRUE

\* line 125: not item.get("parent_task_id")
is_top_level(item) == item.parent_task_id = NoParent

\* line 156: target_id = item.get("group_id") or item["sender_id"]
reply_target(item) == IF item.group_id # None THEN item.group_id ELSE item.sender_id

\* _send_reply without its try block: a transport failure is raised
send_reply_uncaught(transport_ok) == ~transport_ok

\* _send_reply raises: never, "except Exception" logs the transport failure
send_reply_raises(transport_ok) == FALSE

\* lines 125-126 and _send_reply: the reply of a top-level task is posted to
\* the bridge, which answers or fails; then _process returns
ProcessReply(w) ==
    /\ pc[w] = "reply"
    /\ \/ /\ is_top_level(loc[w].item)
          /\ \E transport_ok \in BOOLEAN :
                /\ IF transport_ok THEN NoFault ELSE Fault
                /\ sent' = Append(sent, [task_id |-> loc[w].item.task_id,
                                         sender_id |-> reply_target(loc[w].item),
                                         message |-> loc[w].clean_reply,
                                         channel |-> loc[w].item.channel,
                                         ok |-> transport_ok])
                /\ IF send_reply_raises(transport_ok)
                   THEN /\ loc' = [loc EXCEPT ![w].e = "TransportError"]
                        /\ Goto(w, "except")
                        /\ UNCHANGED returned
                   ELSE Return(w)
       \/ /\ ~is_top_level(loc[w].item)
          /\ Return(w)
          /\ UNCHANGED <<sent, faults>>
    /\ UNCHANGED <<convs, invocations, notes, routerCall, frame, groups, inbound>>
    /\ UNCHANGED <<lifespan, running, created, queue, issued, tasks, puts,
                   startOrder, replyOf>>

\* lines 128-133: the except clause of _process; its commit may raise too
ProcessExcept(w) ==
    /\ pc[w] = "except"
    /\ \/ /\ NoFault
          /\ Commit(w, mark_failed(loc[w].task, loc[w].e))
          /\ convs' = CommittedConvs(loc[w].conv)
          /\ TaskUpdate(w, mark_failed(loc[w].task, loc[w].e))
          /\ Return(w)
       \/ /\ Fault
          /\ RaiseOut(w)
          /\ UNCHANGED <<tasks, convs, notes>>
    /\ UNCHANGED <<invocations, routerCall, frame, groups, inbound>>
    /\ UNCHANGED <<lifespan, running, created, queue, issued, puts, startOrder,
                   replyOf, sent>>

\* ------------------------------------------------------------ specification
WorkerStep(w) ==
    \/ WorkerLoop(w)
    \/ WorkerExit(w)
    \/ WorkerGet(w)
    \/ WorkerTimeout(w)
    \/ WorkerError(w)
    \/ ProcessAdd(w)
    \/ ProcessAgent(w)
    \/ ProcessInvoke(w)
    \/ ProcessScan(w)
    \/ ProcessDone(w)
    \/ ProcessDelegate(w)
    \/ ProcessReply(w)
    \/ ProcessExcept(w)

Next ==
    \/ Start
    \/ Shutdown
    \/ IncomingMessage
    \/ DashboardChat
    \/ \E w \in Workers : WorkerStep(w)

Spec == Init /\ [][Next]_vars

\* the executor fed by the bridge alone, with senders, groups and channels
\* varying
ChatNext ==
    \/ Start
    \/ Shutdown
    \/ IncomingChat
    \/ \E w \in Workers : WorkerStep(w)

\* a run in which at most one storage or transport call fails
ChatInit ==
    /\ lifespan = "startup"
    /\ running = FALSE
    /\ created = 0
    /\ queue = <<>>
    /\ issued = 0
    /\ pc = [w \in Workers |-> "off"]
    /\ loc = [w \in Workers |-> NoLoc]
    /\ tasks = [t \in TaskIds |-> NoTask]
    /\ puts = <<>>
    /\ startOrder = <<>>
    /\ returned = {}
    /\ replyOf = [t \in TaskIds |-> NoText]
    /\ sent = <<>>
    /\ faults = MaxFaults - 1
    /\ convs = <<>>
    /\ invocations = <<>>
    /\ notes = <<>>
    /\ routerCall = NoCall
    /\ frame = NoFrame
    /\ groups = StoredGroups
    /\ inbound = NoInbound

ChatSpec == ChatInit /\ [][ChatNext]_vars

\* the executor fed by the dashboard alone, for the agent that has tools
ToolNext ==
    \/ Start
    \/ Shutdown
    \/ DashboardToolChat
    \/ \E w \in Workers : WorkerStep(w)

ToolSpec == Init /\ [][ToolNext]_vars

\* routers/messages.py incoming_message for one sender writing directly, and
\* messages that resolve to the agent without a team
IncomingDirect ==
    /\ lifespan = "serving"
    /\ Arrived < MaxMessages
    /\ issued + SumOutstanding(Workers) < MaxTasks
    /\ Enqueued(NewItem(A_d, "s1", "n1", M_in, "whatsapp", NoParent, None))
    /\ UNCHANGED <<convs, invocations, notes, routerCall, frame, groups, inbound>>
    /\ UNCHANGED <<faults, lifespan, running, created, pc, loc, tasks, startOrder,
                   returned, replyOf, sent>>

\* the executor fed by the bridge (the agent with a repository, one sender)
\* and by the dashboard (the agent with tools)
PersistNext ==
    \/ Start
    \/ Shutdown
    \/ IncomingDirect
    \/ DashboardToolChat
    \/ \E w \in Workers : WorkerStep(w)

PersistSpec == Init /\ [][PersistNext]_vars

\* the executor fed by the bridge with messages for an agent of a team and
\* for an agent without a team
TeamNext ==
    \/ Start
    \/ Shutdown
    \/ IncomingMessage
    \/ IncomingDirect
    \/ \E w \in Workers : WorkerStep(w)

TeamSpec == ChatInit /\ [][TeamNext]_vars

\* ------------------------------------------- the functions of router.py
\* pieces of reply texts: plain text, white space, a tag opener and a
\* closing bracket on their own, and tags naming one id, an upper-case id
\* and a second id, the id "a" with an empty id and an empty directed text,
\* and an id of no team
Pieces ==
    {<<"x">>, <<" ">>, <<"[", "@">>, <<"]">>,
     <<"[", "@", "b", ":", "y", "]">>,
     <<"[", "@", "B", ",", "c", ":", " ", "z", "]">>,
     <<"[", "@", "a", ",", ",", "b", ":", "]">>,
     <<"[", "@", "d", ":", "y", "]">>}

\* the texts made of at most n pieces
RECURSIVE TextsUpTo(_)
TextsUpTo(n) ==
    IF n = 0 THEN {<<>>}
    ELSE LET T == TextsUpTo(n - 1) IN T \cup {t \o q : t \in T, q \in Pieces}

RouterTexts == TextsUpTo(MaxPieces)

\* the acting agents and the lists of eligible ids of a call
RouterAgents == {A_a, A_b}
RouterTeams == {{}, {A_a, A_b, A_c}, {A_b, A_d}}

\* one call of extract_teammate_mentions, with its arguments and its result
CallExtract ==
    /\ routerCall.fn = None
    /\ \E response \in RouterTexts, current_agent_id \in RouterAgents,
          team_agent_ids \in RouterTeams :
          routerCall' = [fn |-> "extract_teammate_mentions",
                         response |-> response,
                         current_agent_id |-> current_agent_id,
                         team_agent_ids |-> team_agent_ids,
                         results |-> extract_teammate_mentions(
                                        response, current_agent_id, team_agent_ids)]
    /\ UNCHANGED <<convs, invocations, notes, frame, groups, inbound>>
    /\ UNCHANGED <<lifespan, running, created, queue, issued, pc, loc, tasks, puts,
                   startOrder, returned, replyOf, sent, faults>>

\* pieces that removing a tag can join into a tag: a lone '[' before a
\* tag and the rest of a tag after it
StripPieces == Pieces \cup {<<"[">>, <<"@", "b", ":", "y", "]">>}

\* the texts made of at most n of these pieces
RECURSIVE StripTextsUpTo(_)
StripTextsUpTo(n) ==
    IF n = 0 THEN {<<>>}
    ELSE LET T == StripTextsUpTo(n - 1) IN T \cup {t \o q : t \in T, q \in StripPieces}

StripTexts == StripTextsUpTo(MaxPieces)

\* one call of strip_teammate_tags, with its argument and its result
CallStrip ==
    /\ routerCall.fn = None
    /\ \E response \in StripTexts :
          routerCall' = [fn |-> "strip_teammate_tags",
                         response |-> response,
                         result |-> strip_teammate_tags(response)]
    /\ UNCHANGED <<convs, invocations, notes, frame, groups, inbound>>
    /\ UNCHANGED <<lifespan, running, created, queue, issued, pc, loc, tasks, puts,
                   startOrder, returned, replyOf, sent, faults>>

\* --- resolve_agent_for_message
\* the characters of ids in the order of the database's string comparison
\* (upper case before lower case)
Collation == <<"A", "B", "C", "a", "b", "c", "n", "t">>

Ord(c) == CHOOSE i \in 1..Len(Collation) : Collation[i] = c

\* x sorts before y in "ORDER BY Agent.id"
RECURSIVE IdBefore(_, _)
IdBefore(x, y) ==
    IF x = <<>> THEN y # <<>>
    ELSE IF y = <<>> THEN FALSE
    ELSE IF Head(x) = Head(y) THEN IdBefore(Tail(x), Tail(y))
    ELSE Ord(Head(x)) < Ord(Head(y))

\* re.match(r'^@(\S+)\s+([\s\S]*)$', s): '@', the longest run of
\* non-space characters, at least one white-space character, the rest
PrefixMatch(s) ==
    IF s = <<>> \/ s[1] # "@" THEN [ok |-> FALSE, token |-> <<>>, rest |-> <<>>]
    ELSE LET e == CHOOSE p \in 1..Len(s) :
                     /\ \A j \in 2..p : ~IsSpace(s[j])
                     /\ p = Len(s) \/ IsSpace(s[p + 1])
         IN IF e < 2 \/ e = Len(s)
            THEN [ok |-> FALSE, token |-> <<>>, rest |-> <<>>]
            ELSE [ok |-> TRUE,
                  token |-> SubSeq(s, 2, e),
                  rest |-> LStrip(SubSeq(s, e + 1, Len(s)))]

\* a fallback that takes the first row of an unordered SELECT
DefaultAgentFirstRow(db) ==
    IF db.agents = <<>> THEN NoText ELSE db.agents[1].id

\* select(Agent).order_by(Agent.id), .first(): the smallest id, or None
DefaultAgent(db) ==
    IF db.agents = <<>> THEN NoText
    ELSE LET i == CHOOSE k \in 1..Len(db.agents) :
                     \A r \in 1..Len(db.agents) :
                        r # k => IdBefore(db.agents[k].id, db.agents[r].id)
         IN db.agents[i].id

\* the three lookups of lines 23-39 for a lower-cased candidate: the agent
\* with that id, the leader of the team with that id, the first agent in
\* scan order whose lower-cased name is the candidate; None when all fail
LookupCandidate(candidate, db) ==
    IF \E i \in 1..Len(db.agents) : db.agents[i].id = candidate
    THEN candidate
    ELSE IF \E team \in db.teams :
               team.id = candidate /\ team.leader_agent_id # NoText
    THEN (CHOOSE team \in db.teams : team.id = candidate).leader_agent_id
    ELSE LET N == {i \in 1..Len(db.agents) : Lower(db.agents[i].name) = candidate}
         IN IF N = {} THEN NoText
            ELSE db.agents[CHOOSE i \in N : \A r \in N : i <= r].id

resolve_agent_for_message(raw_message, db) ==
    LET s == Strip(raw_message)
        match == PrefixMatch(s)
        found == IF match.ok THEN LookupCandidate(Lower(match.token), db) ELSE NoText
    IN IF found # NoText THEN [agent_id |-> found, message |-> match.rest]
       ELSE [agent_id |-> DefaultAgent(db), message |-> s]

\* directories (rows of agents in scan order, with id and name; teams with
\* id and leader): an empty one; one with lower-case ids, where a name and
\* a team id equal other agents' ids and two agents share a name; one with
\* an upper-case agent id, a team without leader and rows not in id order
ResolveDirs ==
    {[agents |-> <<>>, teams |-> {}],
     [agents |-> <<[id |-> <<"a">>, name |-> <<"B">>],
                   [id |-> <<"b">>, name |-> <<"N">>],
                   [id |-> <<"c">>, name |-> <<"n">>],
                   [id |-> <<"t">>, name |-> <<"x">>]>>,
      teams |-> {[id |-> <<"t">>, leader_agent_id |-> <<"c">>],
                 [id |-> <<"n">>, leader_agent_id |-> <<"b">>]}],
     [agents |-> <<[id |-> <<"b">>, name |-> <<"t">>],
                   [id |-> <<"a">>, name |-> <<"n">>]>>,
      teams |-> {[id |-> <<"t">>, leader_agent_id |-> <<"a">>],
                 [id |-> <<"c">>, leader_agent_id |-> NoText]}],
     [agents |-> <<[id |-> <<"B">>, name |-> <<"x">>],
                   [id |-> <<"A">>, name |-> <<"b">>]>>,
      teams |-> {[id |-> <<"c">>, leader_agent_id |-> NoText]}]}

\* pieces of inbound messages: plain text, white space, a lone '@', and
\* prefixes with tokens in either case
ResolvePieces ==
    {<<"x">>, <<" ">>, <<"\n">>, <<"@">>, <<"@", "a">>, <<"@", "B">>, <<"@", "c">>,
     <<"@", "T">>, <<"@", "n">>}

RECURSIVE ResolveTextsUpTo(_)
ResolveTextsUpTo(n) ==
    IF n = 0 THEN {<<>>}
    ELSE LET T == ResolveTextsUpTo(n - 1)
         IN T \cup {t \o q : t \in T, q \in ResolvePieces}

ResolveTexts == ResolveTextsUpTo(MaxPieces)

\* one call of resolve_agent_for_message, with its arguments and its result
CallResolve ==
    /\ routerCall.fn = None
    /\ \E raw_message \in ResolveTexts, db \in ResolveDirs :
          LET r == resolve_agent_for_message(raw_message, db)
          IN routerCall' = [fn |-> "resolve_agent_for_message",
                            raw_message |-> raw_message,
                            db |-> db,
                            agent_id |-> r.agent_id,
                            message |-> r.message]
    /\ UNCHANGED <<convs, invocations, notes, frame, groups, inbound>>
    /\ UNCHANGED <<lifespan, running, created, queue, issued, pc, loc, tasks, puts,
                   startOrder, returned, replyOf, sent, faults>>

\* the caller has taken the result of the call
RouterReturn ==
    /\ routerCall.fn # None
    /\ routerCall' = NoCall
    /\ UNCHANGED <<convs, invocations, notes, frame, groups, inbound>>
    /\ UNCHANGED <<lifespan, running, created, queue, issued, pc, loc, tasks, puts,
                   startOrder, returned, replyOf, sent, faults>>

RouterNext == CallExtract \/ CallStrip \/ CallResolve \/ RouterReturn

\* the functions of router.py called with any of the bounded arguments
RouterSpec == Init /\ [][RouterNext]_vars

\* ----------------------------------------------------- routers/groups.py
HasGroup(rows, g) == \E row \in rows : row.group_id = g

\* register_group: a new row, enabled
RegisterGroup ==
    /\ lifespan = "serving"
    /\ \E g \in GroupIds :
          /\ ~HasGroup(groups, g)
          /\ groups' = groups \cup {[group_id |-> g, enabled |-> TRUE]}
    /\ UNCHANGED <<convs, invocations, notes, routerCall, frame, inbound>>
    /\ UNCHANGED <<lifespan, running, created, queue, issued, pc, loc, tasks, puts,
                   startOrder, returned, replyOf, sent, faults>>

\* sync_groups: every group the bridge lists and the table lacks is added
\* disabled; the rows that exist keep their flag
SyncGroups ==
    /\ lifespan = "serving"
    /\ \E bridge_groups \in SUBSET GroupIds :
          groups' = groups \cup {[group_id |-> g, enabled |-> FALSE] :
                                   g \in {x \in bridge_groups : ~HasGroup(groups, x)}}
    /\ UNCHANGED <<convs, invocations, notes, routerCall, frame, inbound>>
    /\ UNCHANGED <<lifespan, running, created, queue, issued, pc, loc, tasks, puts,
                   startOrder, returned, replyOf, sent, faults>>

\* the table after "g.enabled = value" on the row of group g
WithEnabled(rows, g, value) ==
    {IF row.group_id = g THEN [row EXCEPT !.enabled = value] ELSE row : row \in rows}

\* enable_group
EnableGroup ==
    /\ lifespan = "serving"
    /\ \E g \in GroupIds :
          /\ HasGroup(groups, g)
          /\ groups' = WithEnabled(groups, g, TRUE)
    /\ UNCHANGED <<convs, invocations, notes, routerCall, frame, inbound>>
    /\ UNCHANGED <<lifespan, running, created, queue, issued, pc, loc, tasks, puts,
                   startOrder, returned, replyOf, sent, faults>>

\* disable_group
DisableGroup ==
    /\ lifespan = "serving"
    /\ \E g \in GroupIds :
          /\ HasGroup(groups, g)
          /\ groups' = WithEnabled(groups, g, FALSE)
    /\ UNCHANGED <<convs, invocations, notes, routerCall, frame, inbound>>
    /\ UNCHANGED <<lifespan, running, created, queue, issued, pc, loc, tasks, puts,
                   startOrder, returned, replyOf, sent, faults>>

\* delete_group
DeleteGroup ==
    /\ lifespan = "serving"
    /\ \E g \in GroupIds :
          /\ HasGroup(groups, g)
          /\ groups' = {row \in groups : row.group_id # g}
    /\ UNCHANGED <<convs, invocations, notes, routerCall, frame, inbound>>
    /\ UNCHANGED <<lifespan, running, created, queue, issued, pc, loc, tasks, puts,
                   startOrder, returned, replyOf, sent, faults>>

\* incoming_message, lines 36-46: a message arrives and the group guard is
\* evaluated on the table as it is now (arrival keeps that table)
InboundArrive ==
    /\ lifespan = "serving"
    /\ inbound.at = "idle"
    /\ Arrived < MaxMessages
    /\ issued < MaxTasks
    /\ \E g \in GroupIds \cup {None} :
          inbound' = [at |-> IF group_guard(g, groups) THEN "route" ELSE "ignored",
                      group_id |-> g,
                      arrival |-> groups]
    /\ UNCHANGED <<convs, invocations, notes, routerCall, frame, groups>>
    /\ UNCHANGED <<lifespan, running, created, queue, issued, pc, loc, tasks, puts,
                   startOrder, returned, replyOf, sent, faults>>

\* incoming_message, lines 49-61: the agent is resolved (the agent without a
\* team) and the task is enqueued
InboundRoute ==
    /\ inbound.at = "route"
    /\ Enqueued(NewItem(A_d, "s1", "n1", M_in, "whatsapp", NoParent, inbound.group_id))
    /\ inbound' = NoInbound
    /\ UNCHANGED <<convs, invocations, notes, routerCall, frame, groups>>
    /\ UNCHANGED <<faults, lifespan, running, created, pc, loc, tasks, startOrder,
                   returned, replyOf, sent>>

\* incoming_message, line 46: the answer {"ignored": True}
InboundIgnored ==
    /\ inbound.at = "ignored"
    /\ inbound' = NoInbound
    /\ UNCHANGED <<convs, invocations, notes, routerCall, frame, groups>>
    /\ UNCHANGED <<lifespan, running, created, queue, issued, pc, loc, tasks, puts,
                   startOrder, returned, replyOf, sent, faults>>

GroupNext ==
    \/ Start
    \/ RegisterGroup
    \/ SyncGroups
    \/ EnableGroup
    \/ DisableGroup
    \/ DeleteGroup
    \/ InboundArrive
    \/ InboundRoute
    \/ InboundIgnored

\* the group endpoints and the inbound endpoint in any order
GroupSpec == Init /\ [][GroupNext]_vars

\* ------------------------------------------- invoker._collect_db_tools
\* res.name.lower().replace(" ", "_")
Prefix(name) ==
    [i \in 1..Len(name) |-> IF LowerChar(name[i]) = " " THEN "_" ELSE LowerChar(name[i])]

\* the names of the tools build_db_tools declares, in order
DbToolNames == <<"list_tables", "query_database">>

\* f"{prefix}__{tool['name']}"
Namespaced(prefix, tool_name) == prefix \o <<"_", "_">> \o <<tool_name>>

\* the tool definitions and the dispatch entries of one database resource,
\* resource number n of the list; declared_by records the declaring resource
ToolsOf(res, n) ==
    [k \in 1..Len(DbToolNames) |->
        [name |-> Namespaced(Prefix(res.name), DbToolNames[k]),
         tool |-> DbToolNames[k],
         description |-> res.name,
         declared_by |-> n]]

\* "dispatch[name] = value" for each tool definition of defs, in order
RECURSIVE Assign(_, _, _)
Assign(dispatch, defs, value) ==
    IF defs = <<>> THEN dispatch
    ELSE Assign((Head(defs).name :> value) @@ dispatch, Tail(defs), value)

\* invoker.py:77-93, from resource number n on: [tool_defs, dispatch]
RECURSIVE collect_db_tools(_, _, _)
collect_db_tools(resources, n, acc) ==
    IF n > Len(resources) THEN acc
    ELSE LET res == resources[n]
         IN IF res.kind # "database" \/ res.db_url \in {None, ""}
            THEN collect_db_tools(resources, n + 1, acc)
            ELSE collect_db_tools(resources, n + 1,
                    [tool_defs |-> acc.tool_defs \o ToolsOf(res, n),
                     dispatch |-> Assign(acc.dispatch, ToolsOf(res, n),
                                         [db_url |-> res.db_url,
                                          allowed |-> res.db_tables])])

NoTools == [tool_defs |-> <<>>, dispatch |-> <<>>]

\* tc.name.split("__", 1)[1]: what follows the first "__" of the name
RECURSIVE AfterFirstSep(_)
AfterFirstSep(name) ==
    IF Len(name) < 2 THEN <<>>
    ELSE IF name[1] = "_" /\ name[2] = "_" THEN SubSeq(name, 3, Len(name))
    ELSE AfterFirstSep(Tail(name))

\* invoker.py:164-170: the executor a tool invocation of that name reaches
\* (db url, allow-list, the tool name execute_db_tool is given), or
\* "unknown" when the name is not in the dispatch table
Executor(dispatch, name) ==
    IF name \notin DOMAIN dispatch THEN [known |-> FALSE]
    ELSE [known |-> TRUE,
          db_url |-> dispatch[name].db_url,
          allowed |-> dispatch[name].allowed,
          raw_name |-> AfterFirstSep(name)]

\* the connection string of the database at position n of a list
DbUrl(n) == IF n = 1 THEN "u1" ELSE "u2"

\* the names a database resource may be given (AgentResource.name is free
\* text and is not unique)
DbNames ==
    {<<"d", "b">>, <<"D", "b">>, <<"d", " ", "b">>, <<"d", "_", "b">>, <<"e">>,
     <<"e", "_">>}

\* the resources one agent may have at position n of its list: a database
\* with any of the names and with or without an allow-list, a database row
\* without url, a repository
ResourcesAt(n) ==
    {Resource("database", name, None, DbUrl(n), tables) :
        name \in DbNames, tables \in {<<>>, <<"t">>}}
    \cup {Resource("database", <<"e">>, None, None, <<>>),
          Resource("repository", <<"d", "b">>, "/r", None, <<>>)}

\* the resource lists of an agent, up to two resources
ResourceLists ==
    {<<>>} \cup {<<r>> : r \in ResourcesAt(1)}
    \cup {<<r1, r2>> : r1 \in ResourcesAt(1), r2 \in ResourcesAt(2)}

\* one call of _collect_db_tools
CallCollect ==
    /\ routerCall.fn = None
    /\ \E resources \in ResourceLists :
          LET r == collect_db_tools(resources, 1, NoTools)
          IN routerCall' = [fn |-> "_collect_db_tools",
                            resources |-> resources,
                            tool_defs |-> r.tool_defs,
                            dispatch |-> r.dispatch]
    /\ UNCHANGED <<convs, invocations, notes, frame, groups, inbound>>
    /\ UNCHANGED <<lifespan, running, created, queue, issued, pc, loc, tasks, puts,
                   startOrder, returned, replyOf, sent, faults>>

\* ------------------------------------------------ db_tools._run_query
\* A statement is a sequence of atoms: a keyword in some casing, an
\* identifier or literal, a punctuation character, a white-space character.
\* str.upper() on the atoms of the model
UpperAtom(c) ==
    CASE c = "select" -> "SELECT"
      [] c = "drop" -> "DROP"
      [] c = "Delete" -> "DELETE"
      [] c = "x" -> "X"
      [] OTHER -> c

Upper(sql) == [i \in 1..Len(sql) |-> UpperAtom(sql[i])]

\* str.split(): the maximal runs of atoms without white space
RECURSIVE SplitWords(_)
SplitWords(t) ==
    LET u == LStrip(t)
    IN IF u = <<>> THEN <<>>
       ELSE LET e == CHOOSE p \in 1..Len(u) :
                        /\ \A j \in 1..p : ~IsSpace(u[j])
                        /\ p = Len(u) \/ IsSpace(u[p + 1])
            IN <<SubSeq(u, 1, e)>> \o SplitWords(SubSeq(u, e + 1, Len(u)))

\* line 90: each blocked keyword as a word of one atom
Blocked ==
    {<<"INSERT">>, <<"UPDATE">>, <<"DELETE">>, <<"DROP">>, <<"ALTER">>, <<"CREATE">>,
     <<"TRUNCATE">>, <<"REPLACE">>}

\* lines 91-92: words & blocked
BlockedFound(normalized) ==
    {w \in Blocked : \E i \in 1..Len(SplitWords(normalized)) :
                        SplitWords(normalized)[i] = w}

\* _run_query up to the decision to execute: the error it returns, or the
\* statement given to conn.execute
run_query(sql) ==
    LET normalized == Upper(Strip(sql))
    IN IF normalized = <<>> \/ normalized[1] # "SELECT"
       THEN [sent |-> FALSE, result |-> "Only SELECT statements are allowed."]
       ELSE IF BlockedFound(normalized) # {}
       THEN [sent |-> FALSE, result |-> "Blocked keyword(s)"]
       ELSE [sent |-> TRUE, result |-> "rows or database error"]

\* pieces of statements: queries in both casings, white space, a semicolon,
\* an opening parenthesis, and mutating statements in several casings
QueryPieces ==
    {<<"SELECT", " ", "1">>, <<"select", " ", "x">>, <<" ">>, <<"\n">>, <<";">>, <<"(">>,
     <<"DROP", " ", "x">>, <<"drop", " ", "x">>, <<"Delete", " ", "x">>}

RECURSIVE QueryTextsUpTo(_)
QueryTextsUpTo(n) ==
    IF n = 0 THEN {<<>>}
    ELSE LET T == QueryTextsUpTo(n - 1) IN T \cup {t \o q : t \in T, q \in QueryPieces}

QueryTexts == QueryTextsUpTo(MaxPieces)

\* one call of the query tool, with its argument and what it did
CallRunQuery ==
    /\ routerCall.fn = None
    /\ \E sql \in QueryTexts :
          routerCall' = [fn |-> "_run_query",
                         sql |-> sql,
                         sent |-> run_query(sql).sent,
                         result |-> run_query(sql).result]
    /\ UNCHANGED <<convs, invocations, notes, frame, groups, inbound>>
    /\ UNCHANGED <<lifespan, running, created, queue, issued, pc, loc, tasks, puts,
                   startOrder, returned, replyOf, sent, faults>>


ResourceNext == CallCollect \/ RouterReturn

\* _collect_db_tools called with any of the bounded resource lists
ResourceSpec == Init /\ [][ResourceNext]_vars

QueryNext == CallRunQuery \/ RouterReturn

\* the query tool called with any of the bounded statements
QuerySpec == Init /\ [][QueryNext]_vars

\* ------------------------------------- the tool-use loop of invoke_agent
\* a content block of the normalised history: a text block, a tool_use block
\* (id, name) or a tool_result block (id is its tool_use_id, body its content)
Block(type, id, name, body) == [type |-> type, id |-> id, name |-> name, body |-> body]

\* a dict of the messages list: "content" is a str (kind "str", text) or a
\* list of blocks (kind "list", blocks); the keys "tool_calls" and
\* "tool_call_id" are absent when <<>> and None
Entry(role, kind, text, blocks, tool_calls, tool_call_id) ==
    [role |-> role, kind |-> kind, text |-> text, blocks |-> blocks,
     tool_calls |-> tool_calls, tool_call_id |-> tool_call_id]

\* {"role": role, "content": text}
StrEntry(role, text) == Entry(role, "str", text, <<>>, <<>>, None)

\* the keys of the dispatch table of an agent with one database resource
\* named "db" (_collect_db_tools), and a name that is not among them
T_list == "db__list_tables"
T_query == "db__query_database"
T_other == "other"
Dispatch == {T_list, T_query}

\* what the vendor answers to one call: a text and tool invocations (id,
\* name): a final answer; one known tool; an unknown tool before a known
\* one, with text; an unknown tool alone
V_final == [text |-> <<"ok">>, calls |-> <<>>]
V_list == [text |-> <<>>, calls |-> <<[id |-> "c1", name |-> T_list]>>]
V_mixed == [text |-> <<"t">>, calls |-> <<[id |-> "c1", name |-> T_other],
                                         [id |-> "c2", name |-> T_query]>>]
V_other == [text |-> <<>>, calls |-> <<[id |-> "c1", name |-> T_other]>>]

\* the answers the vendor may give in a round: any of them in the first
\* MaxVaried rounds, the final answer or the known tool afterwards
VendorAnswers(round) ==
    IF round <= MaxVaried THEN {V_final, V_list, V_mixed, V_other}
    ELSE {V_final, V_list}

\* provider.complete: the normalised CompletionResult of a vendor answer
\* (Gemini has no call id: call_id is the function name)
complete(provider, answer) ==
    [text |-> answer.text,
     tool_calls |-> [k \in 1..Len(answer.calls) |->
                       [call_id |-> IF provider = "google" THEN answer.calls[k].name
                                    ELSE answer.calls[k].id,
                        name |-> answer.calls[k].name]],
     raw |-> answer]

\* resp.content of an Anthropic answer: its text block, then its tool_use
\* blocks
RawBlocks(answer) ==
    (IF answer.text # <<>> THEN <<Block("text", None, None, answer.text)>> ELSE <<>>)
    \o [k \in 1..Len(answer.calls) |->
          Block("tool_use", answer.calls[k].id, answer.calls[k].name, <<>>)]

\* provider.append_assistant_turn
append_assistant_turn(provider, messages, result) ==
    CASE provider = "anthropic" ->
            Append(messages, Entry("assistant", "list", <<>>, RawBlocks(result.raw),
                                   <<>>, None))
      [] provider = "openai" ->
            Append(messages, Entry("assistant", "str", result.raw.text, <<>>,
                                   result.raw.calls, None))
      [] provider = "google" ->
            Append(messages, StrEntry("assistant", result.text))

\* the tool_result blocks of lines 176-179 and 347-350
ResultBlocks(tool_calls, results) ==
    [k \in 1..Len(tool_calls) |->
        Block("tool_result", tool_calls[k].call_id, None, results[k])]

\* provider.append_tool_results
append_tool_results(provider, messages, tool_calls, results) ==
    IF provider = "openai"
    THEN messages \o [k \in 1..Len(tool_calls) |->
                        Entry("tool", "str", results[k], <<>>, <<>>,
                              tool_calls[k].call_id)]
    ELSE Append(messages, Entry("user", "list", <<>>,
                                ResultBlocks(tool_calls, results), <<>>, None))

\* OpenAIProvider._to_openai_messages without the system message: an entry
\* whose content is a list passes as it is, any other entry is rebuilt from
\* its role and content alone
to_openai_messages(messages) ==
    [k \in 1..Len(messages) |->
        IF messages[k].kind = "list" THEN messages[k]
        ELSE StrEntry(messages[k].role, messages[k].text)]

\* the parts of one tool-results entry in Gemini's history
RECURSIVE GeminiParts(_)
GeminiParts(blocks) ==
    IF blocks = <<>> THEN <<>>
    ELSE (IF Head(blocks).type = "tool_result"
          THEN <<Block("text", None, None, <<"[Tool result]: ">> \o Head(blocks).body)>>
          ELSE <<>>) \o GeminiParts(Tail(blocks))

\* GoogleProvider._to_gemini_history
RECURSIVE to_gemini_history(_)
to_gemini_history(messages) ==
    IF messages = <<>> THEN <<>>
    ELSE LET m == Head(messages)
             role == IF m.role = "assistant" THEN "model" ELSE "user"
             here == IF m.kind = "str"
                     THEN <<Entry(role, "list", <<>>,
                                  <<Block("text", None, None, m.text)>>, <<>>, None)>>
                     ELSE IF GeminiParts(m.blocks) # <<>>
                     THEN <<Entry("user", "list", <<>>, GeminiParts(m.blocks),
                                  <<>>, None)>>
                     ELSE <<>>
         IN here \o to_gemini_history(Tail(messages))

\* what a complete call gives the vendor's SDK as the conversation: the
\* messages themselves (Anthropic), the rebuilt list (OpenAI), the history
\* of all but the last message followed by the last message's content as
\* the message sent (Gemini)
Wire(provider, messages) ==
    CASE provider = "anthropic" -> messages
      [] provider = "openai" -> to_openai_messages(messages)
      [] provider = "google" ->
            to_gemini_history(SubSeq(messages, 1, Len(messages) - 1))
            \o <<[messages[Len(messages)] EXCEPT !.role = "user"]>>

\* json.dumps({"error": f"Unknown tool: {tc.name}"})
UnknownToolResult(name) == <<"error", "Unknown tool: ", name>>

\* execute_db_tool for a name of the dispatch table
execute_db_tool(name) ==
    IF name = T_list THEN <<"Tables:">> ELSE <<"rows">>

\* a tool step that treats a name outside the dispatch table as a failure
run_tool_strict(tc) ==
    IF tc.name \in Dispatch
    THEN [raised |-> FALSE, executed |-> TRUE, res_str |-> execute_db_tool(tc.name)]
    ELSE [raised |-> TRUE, executed |-> FALSE, res_str |-> <<>>]

\* lines 165-173: the result string of one tool invocation
run_tool(tc) ==
    IF tc.name \in Dispatch
    THEN [raised |-> FALSE, executed |-> TRUE, res_str |-> execute_db_tool(tc.name)]
    ELSE [raised |-> FALSE, executed |-> FALSE, res_str |-> UnknownToolResult(tc.name)]

\* a loop test that never takes the break of line 157
loop_ends_never(result) == FALSE

\* line 155: "if not result.tool_calls"
loop_ends(result) == result.tool_calls = <<>>

\* the providers get_provider can return
LoopProviders == {"anthropic", "openai", "google"}

\* the stored turns of the conversation (lines 111-117): none, or one
\* earlier exchange
LoopHistories ==
    {<<>>, <<StrEntry("user", <<"p">>), StrEntry("assistant", <<"r">>)>>}

\* invoke_agent reaches its loop: lines 135-150
LoopEnter ==
    /\ frame.at = "idle"
    /\ \E provider \in LoopProviders, history \in LoopHistories :
          frame' = [at |-> "complete",
                    provider |-> provider,
                    messages |-> Append(history, StrEntry("user", <<"q">>)),
                    round |-> 1,
                    result |-> complete(provider, V_final),
                    final_text |-> <<>>,
                    answers |-> <<>>,
                    passed |-> <<>>,
                    wire |-> <<>>,
                    executed |-> <<>>]
    /\ UNCHANGED <<convs, invocations, notes, routerCall, groups, inbound>>
    /\ UNCHANGED <<lifespan, running, created, queue, issued, pc, loc, tasks, puts,
                   startOrder, returned, replyOf, sent, faults>>

\* lines 153-157: "await provider.complete(...)" returns or raises; without
\* tool invocations the text is the final answer and the loop is left
LoopComplete ==
    /\ frame.at = "complete"
    /\ \/ \E answer \in VendorAnswers(frame.round) :
             LET result == complete(frame.provider, answer)
             IN frame' = [frame EXCEPT
                    !.at = IF loop_ends(result) THEN "done" ELSE "tools",
                    !.result = result,
                    !.final_text = IF loop_ends(result) THEN result.text ELSE @,
                    !.answers = Append(@, result),
                    !.passed = Append(@, frame.messages),
                    !.wire = Wire(frame.provider, frame.messages)]
       \/ frame' = [frame EXCEPT
              !.at = "raised",
              !.passed = Append(@, frame.messages),
              !.wire = Wire(frame.provider, frame.messages)]
    /\ UNCHANGED <<convs, invocations, notes, routerCall, groups, inbound>>
    /\ UNCHANGED <<lifespan, running, created, queue, issued, pc, loc, tasks, puts,
                   startOrder, returned, replyOf, sent, faults>>

\* the results of the tool invocations of one round, in order, up to the
\* first that raises
RECURSIVE RunTools(_, _)
RunTools(tool_calls, acc) ==
    IF tool_calls = <<>> THEN acc
    ELSE LET r == run_tool(Head(tool_calls))
         IN IF r.raised THEN [acc EXCEPT !.raised = TRUE]
            ELSE RunTools(Tail(tool_calls),
                          [raised |-> FALSE,
                           tool_results |-> Append(acc.tool_results, r.res_str),
                           executed |-> IF r.executed
                                        THEN Append(acc.executed, Head(tool_calls).name)
                                        ELSE acc.executed])

\* lines 160-180: the assistant turn is appended, every tool invocation is
\* run, the results are appended; after MAX_ROUNDS rounds the else clause
\* of the for loop sets the sentinel text
LoopTools ==
    /\ frame.at = "tools"
    /\ LET turn == append_assistant_turn(frame.provider, frame.messages, frame.result)
           run == RunTools(frame.result.tool_calls,
                           [raised |-> FALSE, tool_results |-> <<>>, executed |-> <<>>])
       IN IF run.raised
          THEN frame' = [frame EXCEPT !.at = "raised", !.messages = turn]
          ELSE frame' = [frame EXCEPT
                   !.at = IF frame.round = MAX_ROUNDS THEN "done" ELSE "complete",
                   !.messages = append_tool_results(frame.provider, turn,
                                    frame.result.tool_calls, run.tool_results),
                   !.round = @ + 1,
                   !.final_text = IF frame.round = MAX_ROUNDS THEN MaxRoundsText ELSE @,
                   !.executed = Append(@, run.executed)]
    /\ UNCHANGED <<convs, invocations, notes, routerCall, groups, inbound>>
    /\ UNCHANGED <<lifespan, running, created, queue, issued, pc, loc, tasks, puts,
                   startOrder, returned, replyOf, sent, faults>>

\* the loop is left (final_text is set, or an exception propagates) and the
\* call under test is over
LoopLeave ==
    /\ frame.at \in {"done", "raised"}
    /\ frame' = NoFrame
    /\ UNCHANGED <<convs, invocations, notes, routerCall, groups, inbound>>
    /\ UNCHANGED <<lifespan, running, created, queue, issued, pc, loc, tasks, puts,
                   startOrder, returned, replyOf, sent, faults>>

LoopNext == LoopEnter \/ LoopComplete \/ LoopTools \/ LoopLeave

\* the tool-use loop of invoke_agent with each provider and every sequence
\* of vendor answers
LoopSpec == Init /\ [][LoopNext]_vars

\* the event loop runs every coroutine that can take a step; when the service
\* is shut down is up to its operator
FairSpec == Spec /\ WF_vars(Start) /\ \A w \in Workers : WF_vars(WorkerStep(w))

\* the executor fed by one sender of the bridge, and its event loop running
\* every coroutine that can take a step
DrainNext ==
    \/ Start
    \/ Shutdown
    \/ IncomingDirect
    \/ \E w \in Workers : WorkerStep(w)

DrainSpec ==
    /\ Init /\ [][DrainNext]_vars
    /\ WF_vars(Start) /\ \A w \in Workers : WF_vars(WorkerStep(w))

\* ================================================================== claims
\* helpers over the histories
PutIds == [j \in 1..Len(puts) |-> puts[j].task_id]

Started == {startOrder[i] : i \in 1..Len(startOrder)}

\* the item of task t: enqueue numbers the tasks in the order it puts them
ItemOf(t) == puts[t]

IsPrefix(a, b) == Len(a) <= Len(b) /\ SubSeq(b, 1, Len(a)) = a

IsChild(item) == item.parent_task_id # NoParent

SelectChildren(t) == SelectSeq(puts, LAMBDA it : it.parent_task_id = t)

Terminal(t) == tasks[t].status \in {"done", "failed"}

\* C1: strict FIFO: the order in which the worker enters _process is the
\* order in which enqueue put the items on the queue, whoever the producers
\* are (the task ids started so far are a prefix of the ids put so far).
C1_StrictFifo == IsPrefix(startOrder, PutIds)

\* C1 witness: a top-level task was put between a parent and the child the
\* parent then delegated, and all three have been started.
C1_Witness ==
    /\ Len(puts) = 3 /\ Len(startOrder) = 3
    /\ ~IsChild(puts[2]) /\ puts[3].parent_task_id = puts[1].task_id

\* C2: single active execution: at most one task is inside _process, from
\* its dequeue to the end of the call.
C2_SingleActive == Cardinality({w \in Workers : pc[w] \in ProcPcs}) <= 1

\* C2 witness: a delegated child is inside invoke_agent while a message that
\* arrived after the child was enqueued waits in the queue.
C2_Witness ==
    \E w \in Workers :
        /\ pc[w] = "invoke"
        /\ IsChild(loc[w].item)
        /\ queue # <<>>
        /\ ~IsChild(Head(queue))

\* C3: every change of the stored status of a task is queued -> processing,
\* processing -> done or processing -> failed; done and failed never change
\* again (the creation of the row is not a change of status).
C3_StatusTransitions ==
    [][\A t \in TaskIds :
          (tasks[t].status # None /\ tasks'[t].status # tasks[t].status)
          => <<tasks[t].status, tasks'[t].status>> \in
                {<<"queued", "processing">>, <<"processing", "done">>,
                 <<"processing", "failed">>}]_vars

\* C3 witness: a step after the 'done' commit failed (the bridge could not be
\* reached), _process has ended and the stored status is still done.
C3_Witness ==
    \E j \in 1..Len(sent) :
        /\ ~sent[j].ok
        /\ sent[j].task_id \in returned
        /\ tasks[sent[j].task_id].status = "done"

\* C4: in every state and for every task row, result is set iff status is
\* done, error is set iff status is failed, and they are never both set.
C4_ResultErrorExclusive ==
    \A t \in TaskIds :
        /\ (tasks[t].result # NoText) <=> (tasks[t].status = "done")
        /\ (tasks[t].error # None) <=> (tasks[t].status = "failed")
        /\ ~(tasks[t].result # NoText /\ tasks[t].error # None)

\* C4 witness: the commit of 'done' and result raised, the except clause of
\* _process then committed 'failed' and the error, and _process returned.
C4_Witness ==
    \E t \in returned :
        /\ tasks[t].status = "failed"
        /\ tasks[t].error = "CommitError"
        /\ \E u \in returned : tasks[u].status = "done"

\* C5: every task admitted by enqueue eventually reaches a terminal status
\* (done or failed) unless the executor is shut down first, also when a
\* storage call of _process raises outside the try block.
C5_EveryAdmittedTaskTerminates ==
    \A t \in TaskIds : (t <= issued) ~> (Terminal(t) \/ ~running)

\* a step in which the processing of the task of worker w fails: the
\* invocation or a storage call raises, the except clause of _process runs,
\* or _process ends without the task being done
Failing(w) ==
    /\ pc[w] \in ProcPcs
    /\ pc'[w] # pc[w]
    /\ \/ pc'[w] \in {"except", "werr", "exited"}
       \/ pc'[w] = "loop" /\ tasks'[loc[w].item.task_id].status # "done"

\* C6: failure isolation: a step in which the processing of a task fails
\* leaves the queue as it is and the worker alive, and the worker goes on
\* draining: unless the executor is shut down, the queue is empty again and
\* again or items are dequeued again and again, so the queue never stays
\* non-empty without its oldest item being dequeued and processed.
C6_FailureIsolation ==
    /\ [][\A w \in Workers :
             Failing(w) => queue' = queue /\ pc'[w] \in {"except", "werr", "loop"}]_vars
    /\ \/ []<>(queue = <<>> \/ ~running)
       \/ []<><<\E w \in Workers : WorkerGet(w)>>_vars

\* C6 witness: _process raised for one task (its first commit failed, no row
\* exists), and a task that was started after it has been processed to done.
C6_Witness ==
    \E i \in 1..Len(startOrder), k \in 1..Len(startOrder) :
        /\ i < k
        /\ startOrder[i] \in returned
        /\ tasks[startOrder[i]] = NoTask
        /\ tasks[startOrder[k]].status = "done"

\* the delegations of the reply of a task that was committed done
DirectivesOf(t) ==
    IF replyOf[t] = NoText THEN <<>>
    ELSE Scanned[replyOf[t], ItemOf(t).agent_id].mentions

\* C7: a child task is not started before _process of its parent has ended
\* (parent stored done, all its children enqueued, the reply of a top-level
\* parent posted), nor before every task put on the queue before it has
\* been started.
C7_ChildAfterParent ==
    \A i \in 1..Len(startOrder) :
        LET c == startOrder[i]
            p == ItemOf(c).parent_task_id
        IN IsChild(ItemOf(c)) =>
              /\ p \in returned
              /\ tasks[p].status = "done"
              /\ Len(SelectChildren(p)) = Len(DirectivesOf(p))
              /\ ~IsChild(ItemOf(p)) => \E j \in 1..Len(sent) : sent[j].task_id = p
              /\ \A j \in 1..Len(puts) :
                    (\E k \in 1..Len(puts) : j < k /\ puts[k].task_id = c)
                    => puts[j].task_id \in Started

\* C7 witness: a child is being processed that was enqueued behind a
\* top-level task which arrived while the parent was being processed.
C7_Witness ==
    \E w \in Workers :
        /\ pc[w] = "invoke"
        /\ IsChild(loc[w].item)
        /\ \E j \in 1..Len(puts) :
              /\ ~IsChild(puts[j])
              /\ loc[w].item.parent_task_id < puts[j].task_id
              /\ puts[j].task_id < loc[w].item.task_id

\* the child the claim expects for directive k of task t (task id left out)
ExpectedChild(t, k) ==
    [task_id |-> 0,
     agent_id |-> DirectivesOf(t)[k].agent_id,
     sender_id |-> ItemOf(t).sender_id,
     sender_name |-> ItemOf(t).sender_name,
     message |-> DirectivesOf(t)[k].message,
     channel |-> ItemOf(t).channel,
     parent_task_id |-> t,
     group_id |-> ItemOf(t).group_id]

\* C8: a task whose _process has ended with the task done has enqueued
\* exactly one child per directive extracted from its reply, in the order of
\* extraction, each with the parent's sender id, sender name, channel and
\* group id, the directive's target as agent id and the parent's id as
\* parent_task_id; a task that is not stored done has no child.
C8_ChildrenPerDirective ==
    \A t \in TaskIds :
        /\ (t \in returned /\ tasks[t].status = "done") =>
              /\ Len(SelectChildren(t)) = Len(DirectivesOf(t))
              /\ \A k \in 1..Len(SelectChildren(t)) :
                    [SelectChildren(t)[k] EXCEPT !.task_id = 0] = ExpectedChild(t, k)
        /\ tasks[t].status # "done" => SelectChildren(t) = <<>>

\* C8 witness: a group task has ended done with two children, for two
\* different agents, in the queue history.
C8_Witness ==
    \E t \in returned :
        /\ tasks[t].status = "done"
        /\ ItemOf(t).group_id = "g1"
        /\ Len(SelectChildren(t)) = 2
        /\ SelectChildren(t)[1].agent_id # SelectChildren(t)[2].agent_id

PostsOf(t) == {j \in 1..Len(sent) : sent[j].task_id = t}

\* C9: a reply is posted to the bridge iff the task has no parent and ended
\* done: exactly one POST for each such task, to its group id if it has one
\* and else to its sender id, on its channel, carrying the stored result;
\* child tasks and tasks that did not end done cause no POST.
C9_DeliveryIffTopLevelDone ==
    /\ \A j \in 1..Len(sent) :
          LET it == ItemOf(sent[j].task_id)
          IN /\ ~IsChild(it)
             /\ tasks[it.task_id].status = "done"
             /\ sent[j].sender_id = (IF it.group_id # None THEN it.group_id
                                     ELSE it.sender_id)
             /\ sent[j].channel = it.channel
             /\ sent[j].message = tasks[it.task_id].result
    /\ \A t \in TaskIds : Cardinality(PostsOf(t)) <= 1
    /\ \A t \in returned :
          (~IsChild(ItemOf(t)) /\ tasks[t].status = "done") => PostsOf(t) # {}

\* C9 witness: a group task and a task without group have both been posted,
\* and a child task has ended done without a POST.
C9_Witness ==
    /\ \E j \in 1..Len(sent) : sent[j].sender_id = "g1"
    /\ \E j \in 1..Len(sent) : sent[j].sender_id = "s1"
    /\ \E t \in returned :
          IsChild(ItemOf(t)) /\ tasks[t].status = "done" /\ PostsOf(t) = {}

\* C10: the text stored as result of a done task and the text posted to the
\* bridge never contain a delegation directive tag.
C10_NoDirectiveInResult ==
    /\ \A t \in TaskIds : tasks[t].status = "done" => ~HasTag(tasks[t].result)
    /\ \A j \in 1..Len(sent) : ~HasTag(sent[j].message)

\* the calls of invoke_agent made for task t
InvocationsOf(t) == {j \in 1..Len(invocations) : invocations[j].task_id = t}

\* the notifications observers got about task t with the given status
NotesOf(t, status) ==
    {j \in 1..Len(notes) : notes[j].task_id = t /\ notes[j].status = status}

\* the tasks put on the queue whose target agent does not exist
MissingAgentTasks == {t \in 1..Len(puts) : ~AgentExists(ItemOf(t).agent_id)}

\* C11: when the target agent of a dequeued task does not exist, the step
\* that finds it missing stores status failed with the agent-not-found error
\* and notifies observers of exactly that, and _process returns; for such a
\* task invoke_agent is never called, no child is enqueued, nothing is
\* handed to the delivery transport, and its row is never anything but
\* processing or failed with that error.
C11_MissingAgentFails ==
    /\ [](\A t \in MissingAgentTasks :
            /\ InvocationsOf(t) = {}
            /\ SelectChildren(t) = <<>>
            /\ PostsOf(t) = {}
            /\ \/ tasks[t] = NoTask
               \/ tasks[t].status = "processing"
               \/ tasks[t].status = "failed" /\ tasks[t].error = "AgentNotFound"
            /\ tasks[t].status = "failed" => NotesOf(t, "failed") # {})
    /\ [][\A w \in Workers :
             (/\ pc[w] = "agent"
              /\ ~AgentExists(loc[w].item.agent_id)
              /\ pc'[w] = "loop")
             => /\ tasks'[loc[w].item.task_id].status = "failed"
                /\ tasks'[loc[w].item.task_id].error = "AgentNotFound"
                /\ notes' = Append(notes, [task_id |-> loc[w].item.task_id,
                                           status |-> "failed", result |-> NoText,
                                           error |-> "AgentNotFound"])
                /\ queue' = queue /\ sent' = sent /\ invocations' = invocations]_vars

\* C11 witness: a task for an agent that does not exist was dequeued, its
\* row says failed with the agent-not-found error, observers were told, and
\* _process has returned.
C11_Witness ==
    \E t \in MissingAgentTasks :
        /\ t \in returned
        /\ tasks[t].status = "failed"
        /\ tasks[t].error = "AgentNotFound"
        /\ NotesOf(t, "failed") # {}

\* the outcomes of invoke_agent that are a raised error, named by its message
RaisedOutcomes == {"ProviderError", "PersistError", "MultipleResultsFound"}

\* C12: the step of the except clause of _process that returns stores status
\* failed with the message of the error that invoke_agent or the scan
\* raised and notifies observers of it; a task whose invoke_agent raised is
\* never done and, once failed, carries that error; no task is retried:
\* invoke_agent is called at most once per task id, every task id is put on
\* the queue once and started once, and a failed task is not on the queue.
C12_FailureIsTerminal ==
    /\ [][\A w \in Workers :
             (pc[w] = "except" /\ pc'[w] = "loop")
             => /\ tasks'[loc[w].item.task_id].status = "failed"
                /\ tasks'[loc[w].item.task_id].error = loc[w].e
                /\ notes' = Append(notes, [task_id |-> loc[w].item.task_id,
                                           status |-> "failed", result |-> NoText,
                                           error |-> loc[w].e])
                /\ queue' = queue]_vars
    /\ [](/\ \A j \in 1..Len(invocations) :
              invocations[j].outcome \in RaisedOutcomes
              => LET t == invocations[j].task_id
                 IN /\ tasks[t].status \in {"processing", "failed"}
                    /\ tasks[t].status = "failed"
                         => tasks[t].error = invocations[j].outcome
                    /\ t \in returned /\ tasks[t].status = "failed"
                         => NotesOf(t, "failed") # {}
          /\ \A t \in TaskIds : Cardinality(InvocationsOf(t)) <= 1
          /\ \A i, j \in 1..Len(puts) : puts[i].task_id = puts[j].task_id => i = j
          /\ \A i, j \in 1..Len(startOrder) : startOrder[i] = startOrder[j] => i = j
          /\ \A i \in 1..Len(queue) : tasks[queue[i].task_id].status # "failed")

\* C12 witness: invoke_agent raised for a task (the provider call failed),
\* the except clause stored failed with that message and told observers,
\* _process returned, and a later task has been started since.
C12_Witness ==
    \E j \in 1..Len(invocations) :
        LET t == invocations[j].task_id
        IN /\ invocations[j].outcome = "ProviderError"
           /\ t \in returned
           /\ tasks[t].status = "failed"
           /\ tasks[t].error = "ProviderError"
           /\ \E n \in NotesOf(t, "failed") : notes[n].error = "ProviderError"
           /\ \E k \in 1..Len(startOrder) : startOrder[k] > t

\* C13: a step in which the POST to the bridge fails changes no task row and
\* notifies nobody, and it ends _process normally with the worker back at
\* the head of its loop; in every state the task of a failed POST is done
\* with the posted text as result and no error.
C13_TransportFailureKeepsTask ==
    /\ [][\A w \in Workers :
             (/\ pc[w] = "reply"
              /\ Len(sent') = Len(sent) + 1
              /\ ~sent'[Len(sent')].ok)
             => /\ tasks' = tasks
                /\ notes' = notes
                /\ queue' = queue
                /\ pc'[w] = "loop"
                /\ loc[w].item.task_id \in returned']_vars
    /\ [](\A j \in 1..Len(sent) :
            ~sent[j].ok
            => /\ tasks[sent[j].task_id].status = "done"
               /\ tasks[sent[j].task_id].result = sent[j].message
               /\ tasks[sent[j].task_id].error = None)

\* C13 witness: the POST for a task failed, its row is done with its result,
\* and the worker has since dequeued and finished another task.
C13_Witness ==
    \E j \in 1..Len(sent), k \in 1..Len(startOrder) :
        /\ ~sent[j].ok
        /\ tasks[sent[j].task_id].status = "done"
        /\ startOrder[k] > sent[j].task_id
        /\ startOrder[k] \in returned
        /\ Terminal(startOrder[k])

\* the calls of invoke_agent that went through to the end: they read the
\* history of their Conversation and appended their two Messages to it
Finished == {j \in 1..Len(invocations) : invocations[j].outcome = "returned"}

\* the finished calls that used the Conversation with the given id, in order
FinishedOn(id) ==
    SelectSeq(invocations, LAMBDA r : r.outcome = "returned" /\ r.conv_id = id)

\* agent id, group id if the task carries one else sender id, and channel
KeyOf(t) ==
    <<ItemOf(t).agent_id,
      IF ItemOf(t).group_id # None THEN ItemOf(t).group_id ELSE ItemOf(t).sender_id,
      ItemOf(t).channel>>

\* C14: two finished invocations used the same Conversation exactly when
\* their tasks agree on agent id, on group id if carried else sender id, and
\* on channel: tasks of one agent and channel with the same group id share
\* one whatever their sender ids, tasks without group id share one only if
\* their sender ids are equal; the stored Conversation carries that key and
\* holds, in order, the two Messages of each invocation that used it.
C14_ConversationKey ==
    /\ \A i, j \in Finished :
          LET a == ItemOf(invocations[i].task_id)
              b == ItemOf(invocations[j].task_id)
              same == invocations[i].conv_id = invocations[j].conv_id
          IN /\ same <=> KeyOf(a.task_id) = KeyOf(b.task_id)
             /\ (/\ a.agent_id = b.agent_id /\ a.channel = b.channel
                 /\ a.group_id # None /\ a.group_id = b.group_id) => same
             /\ (/\ a.group_id = None /\ b.group_id = None /\ same)
                   => a.sender_id = b.sender_id
    /\ \A j \in Finished :
          \E c \in 1..Len(convs) :
             /\ convs[c].id = invocations[j].conv_id
             /\ <<convs[c].agent_id, convs[c].sender_id, convs[c].channel>>
                  = KeyOf(invocations[j].task_id)
             /\ Len(convs[c].messages) = 2 * Len(FinishedOn(convs[c].id))
             /\ \A k \in 1..Len(FinishedOn(convs[c].id)) :
                   /\ convs[c].messages[2 * k - 1].role = "user"
                   /\ convs[c].messages[2 * k - 1].content
                        = ItemOf(FinishedOn(convs[c].id)[k].task_id).message
                   /\ convs[c].messages[2 * k].role = "assistant"

\* C14 witness: two tasks of one agent and channel with the same group id
\* and different sender ids have both been answered, and one Conversation
\* holds the four Messages of the two invocations.
C14_Witness ==
    \E i, j \in Finished :
        LET a == ItemOf(invocations[i].task_id)
            b == ItemOf(invocations[j].task_id)
        IN /\ i < j
           /\ a.agent_id = b.agent_id /\ a.channel = b.channel
           /\ a.group_id # None /\ a.group_id = b.group_id
           /\ a.sender_id # b.sender_id
           /\ invocations[i].conv_id = invocations[j].conv_id
           /\ \E c \in 1..Len(convs) :
                 /\ convs[c].id = invocations[i].conv_id
                 /\ Len(convs[c].messages) = 4

\* the errors of the storage calls of _process that follow invoke_agent
StorageErrors == {"ExecuteError", "CommitError"}

RecognizedKeys == {"anthropic", "openai", "google"}

\* C16: for an agent whose provider key is not a recognized key (an empty
\* key included), invoke_agent selects no vendor and calls none: it ends
\* with the configuration error.
C16_NoVendorForUnrecognizedKey ==
    \A j \in 1..Len(invocations) :
        AgentProvider[ItemOf(invocations[j].task_id).agent_id] \notin RecognizedKeys
        => /\ invocations[j].vendor = None
           /\ invocations[j].calls = 0
           /\ invocations[j].outcome \in {"configuration", "MultipleResultsFound"}

\* the invocations for an agent whose key get_provider is asked about and
\* does not know: a key that is neither recognized nor empty
UnknownKeyInvocations ==
    {j \in 1..Len(invocations) :
        LET key == AgentProvider[ItemOf(invocations[j].task_id).agent_id]
        IN key \notin RecognizedKeys /\ key \notin {"", None}}

\* C17: an invocation for an agent with an unknown provider key does not
\* raise and calls no vendor: it returns the configuration-error text, which
\* the worker holds as the reply; the task is stored done with that text as
\* result, and failed only with the error of a later storage call of
\* _process.
C17_ConfigErrorIsReply ==
    \A j \in UnknownKeyInvocations :
        LET t == invocations[j].task_id
        IN /\ invocations[j].outcome = "configuration"
           /\ invocations[j].vendor = None /\ invocations[j].calls = 0
           /\ \A w \in Workers :
                 (pc[w] = "scan" /\ loc[w].item.task_id = t)
                 => loc[w].reply = ConfigErrorText
           /\ tasks[t].status = "done" => tasks[t].result = ConfigErrorText
           /\ tasks[t].status = "failed" => tasks[t].error \in StorageErrors
           /\ (t \in returned /\ faults = 0) => tasks[t].status = "done"

\* C17 witness: the task of an agent with an unknown provider key has been
\* processed and is done with the configuration-error text as result.
C17_Witness ==
    \E j \in UnknownKeyInvocations :
        /\ invocations[j].outcome = "configuration"
        /\ invocations[j].task_id \in returned
        /\ tasks[invocations[j].task_id].status = "done"
        /\ tasks[invocations[j].task_id].result = ConfigErrorText

\* whether the state holds the result of a call of extract_teammate_mentions
Extracted == routerCall.fn = "extract_teammate_mentions"

\* the ids one tag names, lower-cased and trimmed, in the order written
TagIds(response, m) ==
    LET raw == SplitComma(Lower(SubSeq(response, m.b + 2, m.c - 1)))
    IN [i \in 1..Len(raw) |-> Strip(raw[i])]

\* the ids all the tags of a text name, in the order written
RECURSIVE TagsIds(_, _)
TagsIds(response, tags) ==
    IF tags = <<>> THEN <<>>
    ELSE TagIds(response, Head(tags)) \o TagsIds(response, Tail(tags))

NamedIds(response) == TagsIds(response, FindTags(response, 1))

\* the position of the first occurrence of x in the sequence ids
FirstAt(ids, x) == CHOOSE p \in 1..Len(ids) : ids[p] = x /\ \A r \in 1..(p - 1) : ids[r] # x

\* C18: for every reply text, acting agent and eligible list, every
\* delegation extract_teammate_mentions returns names a member of the
\* eligible list that is not the acting agent.
C18_DelegationsEligible ==
    Extracted =>
        \A k \in 1..Len(routerCall.results) :
            /\ routerCall.results[k].agent_id \in routerCall.team_agent_ids
            /\ routerCall.results[k].agent_id # routerCall.current_agent_id

\* C18 witness: a reply whose tags name the acting agent, an id outside the
\* eligible list and an eligible teammate; a delegation was returned.
C18_Witness ==
    /\ Extracted
    /\ routerCall.results # <<>>
    /\ LET ids == NamedIds(routerCall.response)
       IN /\ \E p \in 1..Len(ids) : ids[p] = routerCall.current_agent_id
          /\ \E p \in 1..Len(ids) :
                ids[p] # <<>> /\ ids[p] \notin routerCall.team_agent_ids

\* C19: extract_teammate_mentions returns each id at most once; the ids it
\* returns are exactly the non-empty ids named in the tags that are eligible
\* and not the acting agent, in the order of their first occurrence in the
\* text; everything else is dropped and a result is returned for every
\* input.
C19_OncePerIdInOrder ==
    Extracted =>
        LET r == routerCall.results
            ids == NamedIds(routerCall.response)
        IN /\ \A i, j \in 1..Len(r) : r[i].agent_id = r[j].agent_id => i = j
           /\ {r[k].agent_id : k \in 1..Len(r)}
                = {ids[p] : p \in {q \in 1..Len(ids) :
                                     /\ ids[q] # <<>>
                                     /\ ids[q] \in routerCall.team_agent_ids
                                     /\ ids[q] # routerCall.current_agent_id}}
           /\ \A i, j \in 1..Len(r) :
                 i < j => FirstAt(ids, r[i].agent_id) < FirstAt(ids, r[j].agent_id)

\* C19 witness: a reply that names an eligible id twice, an empty id and two
\* different eligible ids; two delegations were returned.
C19_Witness ==
    /\ Extracted
    /\ Len(routerCall.results) = 2
    /\ LET ids == NamedIds(routerCall.response)
       IN /\ \E p, q \in 1..Len(ids) :
                p < q /\ ids[p] = ids[q] /\ ids[p] = routerCall.results[2].agent_id
          /\ \E p \in 1..Len(ids) : ids[p] = <<>>

\* the trimmed directed text of the first tag of a text that names x
DirectedTo(response, x) ==
    LET tags == FindTags(response, 1)
        m == CHOOSE n \in 1..Len(tags) :
                /\ \E p \in 1..Len(TagIds(response, tags[n])) :
                      TagIds(response, tags[n])[p] = x
                /\ \A o \in 1..(n - 1) :
                      \A p \in 1..Len(TagIds(response, tags[o])) :
                         TagIds(response, tags[o])[p] # x
    IN Strip(SubSeq(response, tags[m].c + 1, tags[m].e - 1))

\* C20: the message of each delegation is the text outside the tags,
\* trimmed, followed by the separator and by the trimmed directed text of
\* the first tag that names the target, and is that directed text alone when
\* nothing but white space is outside the tags.
C20_DelegationMessage ==
    Extracted =>
        LET shared == Strip(SubTags(routerCall.response, 1))
        IN \A k \in 1..Len(routerCall.results) :
              LET directed == DirectedTo(routerCall.response,
                                         routerCall.results[k].agent_id)
              IN routerCall.results[k].message
                   = IF shared = <<>> THEN directed
                     ELSE shared \o <<"\n\n---\nDirected to you:\n">> \o directed

\* C20 witness: a reply made of tags and white space only, so that the
\* shared context is empty, with a delegation whose message is the directed
\* text of its tag.
C20_Witness ==
    /\ Extracted
    /\ Strip(SubTags(routerCall.response, 1)) = <<>>
    /\ \E i \in 1..Len(routerCall.response) : routerCall.response[i] = " "
    /\ \E k \in 1..Len(routerCall.results) :
          /\ routerCall.results[k].message # <<>>
          /\ routerCall.results[k].message
               = DirectedTo(routerCall.response, routerCall.results[k].agent_id)

\* a call of strip_teammate_tags has returned
Stripped == routerCall.fn = "strip_teammate_tags"

\* C21: for every text x, strip_teammate_tags(x) contains no delegation
\* directive tag, and stripping the result again changes nothing.
C21_StripRemovesAllTags ==
    Stripped =>
        /\ ~HasTag(routerCall.result)
        /\ strip_teammate_tags(routerCall.result) = routerCall.result

\* a call of resolve_agent_for_message has returned
Resolved == routerCall.fn = "resolve_agent_for_message"

\* the prefix of the trimmed message of the call: '@', a token, white space
CallPrefix == PrefixMatch(Strip(routerCall.raw_message))

\* the ids of the agents of the call's directory
DirIds == {routerCall.db.agents[i].id : i \in 1..Len(routerCall.db.agents)}

\* the agents whose id is the token, the leaders of the teams whose id is
\* the token, the agents whose name is the token, all ignoring case
IdMatches == {x \in DirIds : Lower(x) = Lower(CallPrefix.token)}

LeaderMatches ==
    {team.leader_agent_id : team \in {u \in routerCall.db.teams :
        Lower(u.id) = Lower(CallPrefix.token) /\ u.leader_agent_id # NoText}}

NameMatches ==
    {routerCall.db.agents[i].id : i \in {k \in 1..Len(routerCall.db.agents) :
        Lower(routerCall.db.agents[k].name) = Lower(CallPrefix.token)}}

\* C22: for a message with a leading '@token ' prefix the token is matched
\* ignoring case and resolved to an agent with that id, else to the leader
\* of the team with that id, else to an agent with that display name; in
\* each matched case the returned message is the text after the prefix.
C22_ResolutionOrder ==
    (Resolved /\ CallPrefix.ok) =>
        IF IdMatches # {}
        THEN routerCall.agent_id \in IdMatches /\ routerCall.message = CallPrefix.rest
        ELSE IF LeaderMatches # {}
        THEN routerCall.agent_id \in LeaderMatches
             /\ routerCall.message = CallPrefix.rest
        ELSE IF NameMatches # {}
        THEN routerCall.agent_id \in NameMatches
             /\ routerCall.message = CallPrefix.rest
        ELSE TRUE

\* the token of the call names no agent id, no team id and no agent name
MatchesNothing ==
    /\ IdMatches = {}
    /\ \A team \in routerCall.db.teams : Lower(team.id) # Lower(CallPrefix.token)
    /\ NameMatches = {}

\* C23: when the message has no '@token' prefix, or the token matches no
\* agent id, team id or agent name, the result is the smallest agent id
\* (None when the directory has no agent) with the whole trimmed message.
C23_DefaultAgent ==
    (Resolved /\ (~CallPrefix.ok \/ MatchesNothing)) =>
        /\ routerCall.message = Strip(routerCall.raw_message)
        /\ IF DirIds = {} THEN routerCall.agent_id = NoText
           ELSE /\ routerCall.agent_id \in DirIds
                /\ \A x \in DirIds :
                      x # routerCall.agent_id => IdBefore(routerCall.agent_id, x)

\* C23 witness: a message with a prefix whose token matches nothing, in a
\* directory whose first row is not the smallest id; the smallest id and
\* the message with its prefix were returned.
C23_Witness ==
    /\ Resolved
    /\ CallPrefix.ok
    /\ MatchesNothing
    /\ routerCall.db.agents # <<>>
    /\ routerCall.agent_id # routerCall.db.agents[1].id
    /\ routerCall.message[1] = "@"

\* an invoke_agent call is under test and has reached its loop
InLoop == frame.at # "idle"

\* the ids of the tool invocations an entry of a wire history carries, and
\* the ids its tool results are tied to
InvocationIds(entry) ==
    {entry.blocks[k].id : k \in {n \in 1..Len(entry.blocks) :
                                    entry.blocks[n].type = "tool_use"}}
    \cup {entry.tool_calls[k].id : k \in 1..Len(entry.tool_calls)}

ResultIds(entry) ==
    {entry.blocks[k].id : k \in {n \in 1..Len(entry.blocks) :
                                    entry.blocks[n].type = "tool_result"}}
    \cup (IF entry.role = "tool" /\ entry.tool_call_id # None
          THEN {entry.tool_call_id} ELSE {})

\* C24: with each provider, the history a complete call sends to the
\* vendor after rounds with tool invocations contains, for every invocation
\* of every earlier round, an assistant turn that carries the invocation
\* and a later tool-result entry tied to the invocation's id.
C24_WireKeepsToolLinkage ==
    InLoop =>
        \A j \in 1..(Len(frame.passed) - 1) :
           \A k \in 1..Len(frame.answers[j].tool_calls) :
              LET id == frame.answers[j].tool_calls[k].call_id
              IN \E p, q \in 1..Len(frame.wire) :
                    /\ p < q
                    /\ frame.wire[p].role \in {"assistant", "model"}
                    /\ id \in InvocationIds(frame.wire[p])
                    /\ id \in ResultIds(frame.wire[q])

\* a call of the query tool has returned
Queried == routerCall.fn = "_run_query"

\* the mutating keywords, in upper case
MutatingKeywords ==
    {"INSERT", "UPDATE", "DELETE", "DROP", "ALTER", "CREATE", "TRUNCATE", "REPLACE"}

\* white space and punctuation: what may stand next to a keyword
IsDelim(c) == IsSpace(c) \/ c \in {";", "("}

\* a mutating keyword stands at position i of a statement, between
\* delimiters or the ends of the statement
KeywordAt(t, i) ==
    /\ t[i] \in MutatingKeywords
    /\ i = 1 \/ IsDelim(t[i - 1])
    /\ i = Len(t) \/ IsDelim(t[i + 1])

\* C25: the query tool gives a statement to the database only if its
\* leading keyword is SELECT and no mutating keyword occurs anywhere in it,
\* in any casing and whatever white space or punctuation surrounds it.
C25_OnlyReadOnlySent ==
    (Queried /\ routerCall.sent) =>
        LET normalized == Upper(Strip(routerCall.sql))
        IN /\ normalized # <<>>
           /\ normalized[1] = "SELECT"
           /\ \A i \in 1..Len(normalized) : ~KeywordAt(normalized, i)

\* the bounds of the model leave room for another inbound message
RoomForMessage ==
    /\ lifespan = "serving"
    /\ Arrived < MaxMessages
    /\ issued + SumOutstanding(Workers) < MaxTasks

\* C26: enqueue never waits for the execution of a task and is never
\* refused for capacity: whatever the worker is doing and however many
\* items are queued, an inbound message can be enqueued at once; every call
\* adds exactly one item to the end of the queue, and its task id differs
\* from every id returned before.
C26_EnqueueNeverWaits ==
    /\ [](RoomForMessage => ENABLED IncomingMessage)
    /\ [][puts' # puts =>
            \E item \in {puts'[Len(puts')]} :
               /\ puts' = Append(puts, item)
               /\ queue' = Append(queue, item)
               /\ \A j \in 1..Len(puts) : puts[j].task_id # item.task_id]_vars

\* C26 witness: a task is inside _process, another item waits in the queue,
\* two calls have returned two ids, and a further message can be enqueued.
C26_Witness ==
    /\ \E w \in Workers : pc[w] \in ProcPcs
    /\ queue # <<>>
    /\ Len(puts) >= 2
    /\ RoomForMessage
    /\ ENABLED IncomingMessage

\* the table at the arrival of the request in flight has an enabled row for
\* the request's group
EnabledAtArrival ==
    \E row \in inbound.arrival : row.group_id = inbound.group_id /\ row.enabled

\* C27: an incoming message that carries a group id produces a task only if
\* a group with that id was registered and enabled when the message
\* arrived; a message for a group that is then unregistered, disabled or
\* only added by sync is ignored and nothing is enqueued.
C27_GroupGuard ==
    /\ [][(puts' # puts /\ puts'[Len(puts')].group_id # None) =>
            /\ inbound.at = "route"
            /\ puts'[Len(puts')].group_id = inbound.group_id
            /\ EnabledAtArrival]_vars
    /\ [][(inbound.at # "idle" /\ inbound.group_id # None /\ ~EnabledAtArrival) =>
            /\ inbound.at = "ignored"
            /\ puts' = puts /\ queue' = queue]_vars

\* C27 witness: a message for a group that sync added (disabled) is being
\* ignored; an earlier message of a group produced a task while that group
\* was enabled, and that group has since been disabled or deleted.
C27_Witness ==
    /\ inbound.at = "ignored"
    /\ [group_id |-> inbound.group_id, enabled |-> FALSE] \in groups
    /\ \E j \in 1..Len(puts) :
          /\ puts[j].group_id # None
          /\ puts[j].group_id # inbound.group_id
          /\ ~group_guard(puts[j].group_id, groups)

\* the first notification observers got about task t
FirstNoteOf(t) ==
    LET js == {j \in 1..Len(notes) : notes[j].task_id = t}
    IN  notes[CHOOSE j \in js : \A i \in js : j <= i]

\* the step appends a notification with status processing for the task
\* worker w is processing
MarksProcessing(w) ==
    /\ Len(notes') = Len(notes) + 1
    /\ notes'[Len(notes')].status = "processing"
    /\ notes'[Len(notes')].task_id = loc[w].item.task_id

\* C28: for every dequeued task the first status that is persisted and
\* notified to observers is queued; the status processing is persisted and
\* notified only afterwards, by the step that has resolved the target agent
\* and goes on to call invoke_agent.
C28_QueuedBeforeProcessing ==
    /\ [](\A t \in TaskIds :
            (\E j \in 1..Len(notes) : notes[j].task_id = t)
            => FirstNoteOf(t).status = "queued")
    /\ [][\A t \in TaskIds :
            (tasks[t].status = None /\ tasks'[t].status # None)
            => tasks'[t].status = "queued"]_vars
    /\ [][\A w \in Workers :
            MarksProcessing(w)
            => /\ NotesOf(loc[w].item.task_id, "queued") # {}
               /\ pc[w] = "agent"
               /\ AgentExists(loc[w].item.agent_id)
               /\ pc'[w] = "invoke"]_vars

\* the entries a round appended to the history "before": what follows the
\* assistant turn in "after"
AppendedResults(provider, before, after) ==
    LET n == Len(before)
    IN  IF provider = "openai"
        THEN [k \in 1..(Len(after) - n - 1) |-> after[n + 1 + k].text]
        ELSE [k \in 1..Len(after[n + 2].blocks) |-> after[n + 2].blocks[k].body]

\* "after" is "before", then one assistant entry, then the tool results of
\* the round's invocations and nothing else
RoundAppended(provider, before, after, tool_calls) ==
    LET n == Len(before)
    IN  /\ Len(after) >= n + 2
        /\ SubSeq(after, 1, n) = before
        /\ after[n + 1].role = "assistant"
        /\ IF provider = "openai"
           THEN /\ Len(after) = n + 1 + Len(tool_calls)
                /\ \A j \in (n + 2)..Len(after) :
                      /\ after[j].role = "tool"
                      /\ after[j].tool_call_id = tool_calls[j - n - 1].call_id
           ELSE /\ Len(after) = n + 2
                /\ after[n + 2].role = "user"
                /\ after[n + 2].kind = "list"
                /\ Len(after[n + 2].blocks) = Len(tool_calls)
                /\ \A j \in 1..Len(tool_calls) :
                      /\ after[n + 2].blocks[j].type = "tool_result"
                      /\ after[n + 2].blocks[j].id = tool_calls[j].call_id

\* C29: the tool-use loop stops at the first round in which the provider
\* returns no tool invocations and the reply is that round's text; no
\* further provider call is made in that invocation; in every earlier round
\* the assistant turn and then the tool results are appended to the history
\* before the next provider call.
C29_LoopStopsAtFinalAnswer ==
    InLoop =>
        /\ \A k \in 1..Len(frame.answers) :
              frame.answers[k].tool_calls = <<>>
              => /\ k = Len(frame.answers)
                 /\ Len(frame.passed) = k
                 /\ frame.at = "done"
                 /\ frame.final_text = frame.answers[k].text
        /\ \A k \in 1..(Len(frame.passed) - 1) :
              /\ frame.answers[k].tool_calls # <<>>
              /\ RoundAppended(frame.provider, frame.passed[k], frame.passed[k + 1],
                               frame.answers[k].tool_calls)

\* C29 witness: the loop has ended at its third provider call, the first
\* that came back without tool invocations, and the reply is its text.
C29_Witness ==
    /\ InLoop
    /\ frame.at = "done"
    /\ Len(frame.answers) = 3
    /\ Len(frame.passed) = 3
    /\ frame.answers[3].tool_calls = <<>>
    /\ frame.final_text = frame.answers[3].text
    /\ frame.final_text # <<>>

\* the names of tool_calls that are keys of the dispatch table, in order
RECURSIVE KnownNames(_)
KnownNames(tool_calls) ==
    IF tool_calls = <<>> THEN <<>>
    ELSE (IF Head(tool_calls).name \in Dispatch THEN <<Head(tool_calls).name>> ELSE <<>>)
         \o KnownNames(Tail(tool_calls))

\* the round being run asks for a tool that is not in the dispatch table
AsksUnknownTool ==
    /\ InLoop
    /\ frame.at = "tools"
    /\ \E k \in 1..Len(frame.result.tool_calls) :
          frame.result.tool_calls[k].name \notin Dispatch

ConvIndex(cs, id) ==
    IF \E i \in 1..Len(cs) : cs[i].id = id
    THEN CHOOSE i \in 1..Len(cs) : cs[i].id = id
    ELSE 0

\* the messages stored in table cs for the Conversation with the given id
MessagesOf(cs, id) ==
    IF ConvIndex(cs, id) = 0 THEN <<>> ELSE cs[ConvIndex(cs, id)].messages

\* this step is worker w's call of invoke_agent returning a reply
Returns(w) ==
    /\ pc[w] = "invoke"
    /\ pc'[w] = "scan"
    /\ Len(invocations') = Len(invocations) + 1
    /\ invocations'[Len(invocations')].outcome = "returned"

\* C31: every invocation that finishes the tool-use loop (final answer or
\* round-exhaustion sentinel) appends exactly two Messages to the task's
\* conversation: a user message whose content is the original message,
\* without the injected resource context, then an assistant message whose
\* content is the returned reply; the messages stored before in that
\* conversation and the messages of every other conversation are unchanged,
\* and no other step changes the messages of a conversation.
C31_TwoMessagesAppended ==
    /\ [][\A w \in Workers :
            Returns(w) =>
              LET inv == invocations'[Len(invocations')]
                  item == loc[w].item
              IN /\ inv.task_id = item.task_id
                 /\ MessagesOf(convs', inv.conv_id)
                      = MessagesOf(convs, inv.conv_id)
                        \o <<[role |-> "user", content |-> item.message],
                             [role |-> "assistant", content |-> loc'[w].reply]>>
                 /\ \A i \in 1..Len(convs) :
                       convs[i].id # inv.conv_id
                       => MessagesOf(convs', convs[i].id) = convs[i].messages]_vars
    /\ [][\A i \in 1..Len(convs') :
            MessagesOf(convs', convs'[i].id) # MessagesOf(convs, convs'[i].id)
            => \E w \in Workers :
                  /\ Returns(w)
                  /\ invocations'[Len(invocations')].conv_id = convs'[i].id]_vars
    /\ [][\A i \in 1..Len(convs) : ConvIndex(convs', convs[i].id) # 0]_vars

\* C31 witness: a conversation holds the two messages of an invocation whose
\* provider was given the message with a repository block injected, and
\* another conversation holds the sentinel of an exhausted loop as its reply.
C31_Witness ==
    /\ \E j \in 1..Len(invocations) :
          /\ invocations[j].outcome = "returned"
          /\ invocations[j].prompt # ItemOf(invocations[j].task_id).message
          /\ LET ms == MessagesOf(convs, invocations[j].conv_id)
             IN /\ Len(ms) = 2
                /\ ms[1] = [role |-> "user",
                            content |-> ItemOf(invocations[j].task_id).message]
                /\ ms[2].role = "assistant"
    /\ \E i \in 1..Len(convs) :
          /\ Len(convs[i].messages) >= 2
          /\ convs[i].messages[Len(convs[i].messages)]
               = [role |-> "assistant", content |-> MaxRoundsText]

\* the key of a stored Conversation
ConvKey(row) == <<row.agent_id, row.sender_id, row.channel>>

\* C32: in every reachable state there is at most one Conversation for each
\* (agent id, sender-or-group key, channel); a Conversation is added only
\* when none exists for the key of the task being processed, and the one
\* added carries that key.
C32_OneConversationPerKey ==
    /\ [](\A i, j \in 1..Len(convs) :
             ConvKey(convs[i]) = ConvKey(convs[j]) => i = j)
    /\ [][Len(convs') > Len(convs) =>
            /\ Len(convs') = Len(convs) + 1
            /\ \A i \in 1..Len(convs) : ConvKey(convs[i]) # ConvKey(convs'[Len(convs')])
            /\ \E w \in Workers :
                  /\ loc[w].item.task_id \in 1..Len(puts)
                  /\ ConvKey(convs'[Len(convs')])
                       = <<KeyOf(loc[w].item.task_id)[1], KeyOf(loc[w].item.task_id)[2],
                           KeyOf(loc[w].item.task_id)[3]>>]_vars

\* C32 witness: two Conversations with different keys are stored, and a
\* second task with the key of one of them has been answered in the
\* Conversation the first one created.
C32_Witness ==
    /\ Len(convs) >= 2
    /\ \E i, j \in Finished :
          /\ i < j
          /\ KeyOf(invocations[i].task_id) = KeyOf(invocations[j].task_id)
          /\ invocations[i].created
          /\ ~invocations[j].created
          /\ invocations[i].conv_id = invocations[j].conv_id

\* the agents of the team of agent_id other than agent_id itself
Teammates(agent_id) ==
    IF agent_id \notin DOMAIN AgentTeam THEN {}
    ELSE {a \in DOMAIN AgentTeam : /\ AgentTeam[a] # None
                                   /\ AgentTeam[a] = AgentTeam[agent_id]
                                   /\ a # agent_id}

\* C33: every child task targets an agent of the team of its parent task's
\* agent other than that agent; a task whose agent belongs to no team never
\* has a child task, whatever its reply contains.
C33_ChildrenAreTeammates ==
    /\ \A t \in 1..Len(puts) :
          IsChild(puts[t])
          => /\ puts[t].parent_task_id \in 1..Len(puts)
             /\ puts[t].agent_id \in Teammates(puts[puts[t].parent_task_id].agent_id)
    /\ \A t \in 1..Len(puts) :
          (AgentExists(puts[t].agent_id) /\ AgentTeam[puts[t].agent_id] = None)
          => SelectChildren(t) = <<>>

\* C33 witness: a task of an agent without a team is done with a reply that
\* held a directive, and a task of an agent with a team has a child.
C33_Witness ==
    /\ \E t \in 1..Len(puts) :
          /\ AgentTeam[puts[t].agent_id] = None
          /\ tasks[t].status = "done"
          /\ HasTag(replyOf[t])
    /\ \E t \in 1..Len(puts) : IsChild(puts[t])

\* the number of ancestors of task t in the queue history
RECURSIVE TaskDepth(_)
TaskDepth(t) ==
    IF ~IsChild(ItemOf(t)) THEN 0 ELSE 1 + TaskDepth(ItemOf(t).parent_task_id)

\* C34: there is no depth limit on delegation: the reply of a child task is
\* scanned like a top-level reply, so a child task whose _process has ended
\* done has one child per directive of its reply, each one level deeper, at
\* whatever depth the child task itself is; the only limit on the length of
\* a chain is the bound on the tasks of a run.
C34_NoDepthLimit ==
    \A t \in 1..Len(puts) :
        (IsChild(ItemOf(t)) /\ t \in returned /\ tasks[t].status = "done")
        => /\ Len(SelectChildren(t)) = Len(DirectivesOf(t))
           /\ \A k \in 1..Len(SelectChildren(t)) :
                 /\ SelectChildren(t)[k].agent_id = DirectivesOf(t)[k].agent_id
                 /\ TaskDepth(SelectChildren(t)[k].task_id) = TaskDepth(t) + 1

\* C34 witness: after one top-level submission a chain as long as the bound
\* on tasks allows has formed, two teammates delegating to each other in
\* turn, and the queue is not empty when the last but one of them ends.
C34_Witness ==
    /\ Len(puts) = MaxTasks
    /\ \A t \in 1..Len(puts) : TaskDepth(t) = t - 1
    /\ \A t \in 2..Len(puts) : ItemOf(t).agent_id # ItemOf(t - 1).agent_id
    /\ ItemOf(MaxTasks).agent_id = ItemOf(MaxTasks - 2).agent_id
    /\ (MaxTasks - 1) \in returned
    /\ queue # <<>>

\* a call of _collect_db_tools has returned
Collected == routerCall.fn = "_collect_db_tools"

\* C35: tool names in the dispatch table are disambiguated per resource:
\* every prefixed tool name offered to the model leads to the executor (db
\* url and allow-list) of the resource that declared it, with the tool name
\* that resource declared, also when the names of two resources are equal or
\* differ only in case or in spaces versus underscores.
C35_DispatchPerResource ==
    Collected =>
        \A k \in 1..Len(routerCall.tool_defs) :
            LET def == routerCall.tool_defs[k]
                res == routerCall.resources[def.declared_by]
                ex == Executor(routerCall.dispatch, def.name)
            IN /\ ex.known
               /\ ex.db_url = res.db_url
               /\ ex.allowed = res.db_tables
               /\ ex.raw_name = <<def.tool>>

\* the agents with a repository resource whose loading fails
FailingRepoAgents ==
    {a \in DOMAIN AgentResources :
        \E k \in 1..Len(AgentResources[a]) :
            AgentResources[a][k].kind = "repository" /\ AgentLoads[a][k].raised}

\* what the provider is to be given for a message of agent d: the message,
\* the rule and the heading, the block of the first repository, the error
\* marker in place of the second, the block of the third
ExpectedPromptOfD(message) ==
    message
    \o <<"\n\n", "RULE", "\n", "You have access to the following repository files:", "\n">>
    \o <<"\n\n", "## Resource: ", "r1", "\n\n", "f1">>
    \o <<"\n\n", "## Resource: ", "r2", "\n\n",
         "[Error loading repository: ", "FileNotFoundError", "]">>
    \o <<"\n\n", "## Resource: ", "r3", "\n\n", "f3">>

\* C36: a failure while rendering one repository resource does not abort the
\* invocation: no invocation ends because of it and no task fails with it;
\* the provider is called with the message followed by the blocks of the
\* agent's resources in order, the failing resource's block replaced by the
\* inline error marker and the other blocks rendered.
C36_RenderFailureIsInline ==
    /\ \A j \in 1..Len(invocations) :
          /\ invocations[j].outcome # "InjectionError"
          /\ (ItemOf(invocations[j].task_id).agent_id = A_d
              /\ invocations[j].outcome \in {"returned", "ProviderError", "PersistError"})
             => /\ invocations[j].calls > 0
                /\ invocations[j].prompt
                     = ExpectedPromptOfD(ItemOf(invocations[j].task_id).message)
    /\ \A t \in TaskIds : tasks[t].error # "InjectionError"

\* C36 witness: a task of an agent one of whose repositories fails to load
\* is done; the provider was called for it and returned the stored reply.
C36_Witness ==
    \E j \in 1..Len(invocations) :
        LET t == invocations[j].task_id
        IN /\ ItemOf(t).agent_id \in FailingRepoAgents
           /\ invocations[j].outcome = "returned"
           /\ invocations[j].calls > 0
           /\ tasks[t].status = "done"
           /\ t \in returned

\* worker w is between two tasks: at the loop test or waiting for an item
Idle(w) == pc[w] \in {"loop", "wait"}

\* C37: after the shutdown signal (the running flag false) an idle worker
\* whose queue is empty terminates: it waits at most once more, and the loop
\* test that sees the flag false ends the coroutine, after which it starts
\* no task; while the flag is true and the queue is empty the worker goes
\* round its loop without starting a task and without ending.
C37_DrainLoopShutdown ==
    /\ [][\A w \in Workers : pc[w] = "exited" => pc'[w] = "exited"]_vars
    /\ [][\A w \in Workers :
            (pc[w] = "loop" /\ ~running) => pc'[w] \in {"loop", "exited"}]_vars
    /\ [][\A w \in Workers :
            (pc[w] = "wait" /\ ~running /\ queue = <<>>) => pc'[w] \in {"wait", "loop"}]_vars
    /\ [][\A w \in Workers :
            (running /\ queue = <<>> /\ Idle(w))
            => /\ Idle(w)'
               /\ startOrder' = startOrder]_vars
    /\ \A w \in Workers : (~running /\ queue = <<>> /\ Idle(w)) ~> (pc[w] = "exited")

\* C37 witness: the worker has processed a task, the shutdown signal was
\* given while the queue was empty, and the worker has ended.
C37_Witness ==
    /\ lifespan = "shutdown"
    /\ ~running
    /\ queue = <<>>
    /\ startOrder # <<>>
    /\ \E w \in Workers : pc[w] = "exited"

\* the stored messages ms are user/assistant pairs in alternation
Paired(ms) ==
    /\ Len(ms) % 2 = 0
    /\ \A k \in 1..Len(ms) :
          ms[k].role = IF k % 2 = 1 THEN "user" ELSE "assistant"

\* C38: messages are added to a conversation only by an invocation that
\* finishes the tool-use loop: the step of an invocation that returns a
\* configuration error or raises changes no stored message, and neither does
\* the rest of that task's processing, so every stored conversation holds
\* complete user/assistant pairs in alternation, two per finished invocation.
C38_OnlyFinishedInvocationsStore ==
    /\ [](\A i \in 1..Len(convs) :
             /\ Paired(convs[i].messages)
             /\ Len(convs[i].messages) = 2 * Len(FinishedOn(convs[i].id)))
    /\ [][(/\ Len(invocations') = Len(invocations) + 1
           /\ invocations'[Len(invocations')].outcome # "returned")
          => \A i \in 1..Len(convs') :
                MessagesOf(convs', convs'[i].id) = MessagesOf(convs, convs'[i].id)]_vars
    /\ [][\A w \in Workers :
             pc[w] \in {"scan", "done", "delegate", "reply", "except"}
             => \A i \in 1..Len(convs') :
                   MessagesOf(convs', convs'[i].id) = MessagesOf(convs, convs'[i].id)]_vars

\* C38 witness: an invocation returned a configuration error and its task is
\* done, another raised and its task is failed; the conversations they
\* created are stored without messages, next to one that holds a pair.
C38_Witness ==
    /\ \E j \in 1..Len(invocations) :
          /\ invocations[j].outcome = "configuration"
          /\ tasks[invocations[j].task_id].status = "done"
          /\ ConvIndex(convs, invocations[j].conv_id) # 0
          /\ MessagesOf(convs, invocations[j].conv_id) = <<>>
    /\ \E j \in 1..Len(invocations) :
          /\ invocations[j].outcome = "ProviderError"
          /\ tasks[invocations[j].task_id].status = "failed"
          /\ ConvIndex(convs, invocations[j].conv_id) # 0
          /\ MessagesOf(convs, invocations[j].conv_id) = <<>>
    /\ \E i \in 1..Len(convs) : Len(convs[i].messages) = 2

\* TaskQueue.start called once more, by any caller after the lifespan's own
\* call: lines 44-45 run unconditionally, the flag is set and one more
\* _worker coroutine is created on the same queue
StartAgain ==
    /\ lifespan \in {"serving", "shutdown"}
    /\ NewWorkers(created) # {}
    /\ running' = TRUE
    /\ created' = created + Cardinality(NewWorkers(created))
    /\ pc' = [w \in Workers |-> IF w \in NewWorkers(created) THEN "loop" ELSE pc[w]]
    /\ UNCHANGED <<convs, invocations, notes, routerCall, frame, groups, inbound>>
    /\ UNCHANGED <<faults, lifespan, queue, issued, loc, tasks, puts, startOrder,
                   returned, replyOf, sent>>

\* the executor when start may be called again, while serving or after the
\* shutdown signal
RestartNext ==
    \/ Start
    \/ Shutdown
    \/ StartAgain
    \/ IncomingDirect
    \/ \E w \in Workers : WorkerStep(w)

RestartSpec == Init /\ [][RestartNext]_vars

\* the _worker coroutines that have been created and have not ended
Consumers == {w \in Workers : pc[w] \notin {"off", "exited"}}

\* C40: at most one worker coroutine ever drains the queue: calling
\* TaskQueue.start again, while serving or after a shutdown signal, does not
\* create a second concurrent consumer, and no two _process calls are in
\* progress at once.
C40_SingleConsumer ==
    /\ Cardinality(Consumers) <= 1
    /\ Cardinality({w \in Workers : loc[w] # NoLoc}) <= 1

\* routers/tasks.get_task: db.get(Task, task_id), 404 when there is no row
get_task(rows, task_id) ==
    IF rows[task_id].status = None
    THEN [code |-> 404, status |-> None]
    ELSE [code |-> 200, status |-> rows[task_id].status]

\* the task ids the inbound endpoint has answered with: "status": "queued"
\* follows the enqueue of a top-level item from the bridge
AnsweredQueued ==
    {puts[j].task_id : j \in {k \in 1..Len(puts) :
        puts[k].parent_task_id = NoParent /\ puts[k].channel = "whatsapp"}}

\* C39: once the inbound endpoint has answered with a task id and status
\* queued, a status lookup of that task id finds the task with status queued
\* at every moment until the worker starts processing it.
C39_QueuedVisibleUntilProcessing ==
    \A t \in AnsweredQueued :
        t \notin Started
        => get_task(tasks, t) = [code |-> 200, status |-> "queued"]

====
